---- MODULE Spec2Model ----
(***************************************************************************)
(* beammeup: remote-execution engine and reconciliation protocol.          *)
(*                                                                         *)
(* The module holds one state machine per component:                       *)
(*   SpecService  the Hangar Service's runRemote (internal/hangar)         *)
(*   SpecHostKey  the SSH transport's host-key policy (internal/sshx)      *)
(*   SpecAgent    the remote agent script (internal/remote, Script)        *)
(*   SpecSocks    the SOCKS5 per-connection handler (internal/tunnel)      *)
(*   SpecTunnel   the tunnel's accept loop (internal/tunnel, Run)          *)
(*   SpecShips    the ship store (internal/ships)                          *)
(*   SpecCache    the password cache (PasswordCache)                       *)
(*   SpecExecute  the Hangar Service's Execute (internal/hangar)           *)
(*   SpecArgs     the agent's reading of runRemote's argument list         *)
(*   SpecDriver   the command-line driver (internal/cli, Runner.Run)       *)
(*   SpecUpload   the SSH client's Upload of the agent script              *)
(*   SpecInventory the Hangar Service's Inventory (internal/hangar)        *)
(*   SpecCockpit  the interactive cockpit (internal/tui, App)              *)
(* Each specification moves its own variable and leaves the others alone.  *)
(***************************************************************************)
EXTENDS Integers, Sequences, FiniteSets, TLC

VARIABLES
    svc,     \* the last runRemote call: its input, its steps and what it returned
    trust,   \* the host-key trust file (known_hosts): a sequence of lines
    conns,   \* the SSH connects in flight or finished
    host,    \* the target server the remote agent runs on: files and services
    run,     \* the last run of the remote agent: arguments, exit, report
    sock,    \* one SOCKS5 connection and its handler
    tun,     \* the tunnel's Run: context, listener, accept loop, handlers
    ships,   \* the ship store's directory and its last operation
    cache,   \* the password cache: its map, its lock and the callers inside it
    drv,     \* one run of the command-line driver: options, calls, exit
    up,      \* one Upload of the SSH client: the content, the remote file, the error
    app      \* the interactive cockpit: screen, current ship, store directory, passwords

vars == <<svc, trust, conns, host, run, sock, tun, ships, cache, drv, up, app>>

(***************************************************************************)
(* Strings.  TLC evaluates Len, \o, SubSeq, Head and Tail on strings, so   *)
(* Go strings are TLA+ strings and a byte is a string of length one.       *)
(***************************************************************************)

Ch(s, i) == SubSeq(s, i, i)

\* unicode.IsSpace restricted to the bytes a TLA+ string can spell
IsSpace(c) == c \in {" ", "\t", "\n", "\r", "\f"}

RECURSIVE FirstNonSpace(_, _)
FirstNonSpace(s, i) ==
    IF i > Len(s) \/ ~IsSpace(Ch(s, i)) THEN i ELSE FirstNonSpace(s, i + 1)

RECURSIVE LastNonSpace(_, _)
LastNonSpace(s, i) ==
    IF i < 1 \/ ~IsSpace(Ch(s, i)) THEN i ELSE LastNonSpace(s, i - 1)

\* strings.TrimSpace
TrimSpace(s) == SubSeq(s, FirstNonSpace(s, 1), LastNonSpace(s, Len(s)))

\* strings.HasPrefix
HasPrefix(s, p) == Len(s) >= Len(p) /\ SubSeq(s, 1, Len(p)) = p

RECURSIVE TrimRightCR(_)
\* strings.TrimRight(s, "\r")
TrimRightCR(s) ==
    IF Len(s) > 0 /\ Ch(s, Len(s)) = "\r" THEN TrimRightCR(SubSeq(s, 1, Len(s) - 1)) ELSE s

RECURSIVE IndexByte(_, _, _)
\* strings.IndexByte from position i (1-based); 0 when absent
IndexByte(s, c, i) ==
    IF i > Len(s) THEN 0 ELSE IF Ch(s, i) = c THEN i ELSE IndexByte(s, c, i + 1)

\* strings.Contains
Contains(s, p) == \E i \in 1..(Len(s) - Len(p) + 1) : SubSeq(s, i, i + Len(p) - 1) = p

UpperLetters == "ABCDEFGHIJKLMNOPQRSTUVWXYZ"
LowerLetters == "abcdefghijklmnopqrstuvwxyz"

UpperSet == {SubSeq(UpperLetters, i, i) : i \in 1..Len(UpperLetters)}

LowerByte(c) ==
    IF c \notin UpperSet THEN c ELSE Ch(LowerLetters, IndexByte(UpperLetters, c, 1))

UpperByte(c) ==
    LET i == IndexByte(LowerLetters, c, 1) IN IF i = 0 THEN c ELSE Ch(UpperLetters, i)

RECURSIVE ToLower(_)
\* strings.ToLower
ToLower(s) ==
    IF s = "" THEN ""
    ELSE IF Len(s) = 1 THEN LowerByte(s)
    ELSE ToLower(SubSeq(s, 1, Len(s) \div 2)) \o ToLower(SubSeq(s, Len(s) \div 2 + 1, Len(s)))

RECURSIVE ToUpper(_)
\* strings.ToUpper
ToUpper(s) ==
    IF s = "" THEN ""
    ELSE IF Len(s) = 1 THEN UpperByte(s)
    ELSE ToUpper(SubSeq(s, 1, Len(s) \div 2)) \o ToUpper(SubSeq(s, Len(s) \div 2 + 1, Len(s)))

RECURSIVE Repeat(_, _)
\* strings.Repeat
Repeat(s, n) ==
    IF n <= 0 THEN ""
    ELSE IF n % 2 = 1 THEN s \o Repeat(s, n - 1)
    ELSE LET h == Repeat(s, n \div 2) IN h \o h

RECURSIVE JoinWith(_, _)
\* strings.Join
JoinWith(parts, sep) ==
    IF Len(parts) = 0 THEN ""
    ELSE IF Len(parts) = 1 THEN parts[1]
    ELSE parts[1] \o sep \o JoinWith(Tail(parts), sep)

(***************************************************************************)
(* bufio.Scanner with the default split function (ScanLines): tokens end   *)
(* at "\n", one trailing "\r" is dropped, a last line without "\n" is a    *)
(* token when it is not empty, and a token that does not fit the buffer    *)
(* ends the scan.                                                          *)
(***************************************************************************)
MaxScanTokenSize == 65536

DropCR(s) == IF Len(s) > 0 /\ Ch(s, Len(s)) = "\r" THEN SubSeq(s, 1, Len(s) - 1) ELSE s

Newlines(s) == {i \in 1..Len(s) : Ch(s, i) = "\n"}

RECURSIVE ScanFrom(_, _, _)
ScanFrom(s, nls, from) ==
    IF from > Len(s) THEN <<>>
    ELSE LET rest == {i \in nls : i >= from}
             nl   == IF rest = {} THEN Len(s) + 1
                     ELSE CHOOSE i \in rest : \A j \in rest : i <= j
         IN  IF nl - from >= MaxScanTokenSize THEN <<>>
             ELSE <<DropCR(SubSeq(s, from, nl - 1))>> \o ScanFrom(s, nls, nl + 1)

ScanLines(s) == ScanFrom(s, Newlines(s), 1)

(***************************************************************************)
(* Byte order of strings (sort.Strings) over the bytes of BM_ keys.         *)
(***************************************************************************)
ByteOrder == " -.0123456789ABCDEFGHIJKLMNOPQRSTUVWXYZ_abcdefghijklmnopqrstuvwxyz"

Ord(c) == IndexByte(ByteOrder, c, 1)

RECURSIVE StrLess(_, _)
StrLess(a, b) ==
    IF b = "" THEN FALSE
    ELSE IF a = "" THEN TRUE
    ELSE IF Head(a) = Head(b) THEN StrLess(Tail(a), Tail(b))
    ELSE Ord(Head(a)) < Ord(Head(b))

RECURSIVE SortStrings(_)
\* sort.Strings over a set of distinct strings
SortStrings(set) ==
    IF set = {} THEN <<>>
    ELSE LET m == CHOOSE x \in set : \A y \in set \ {x} : StrLess(x, y)
         IN  <<m>> \o SortStrings(set \ {m})

(***************************************************************************)
(* Key/Value parser (internal/remote/parser.go).  KeyValues is a Go map:   *)
(* a function from the keys present to their values.                       *)
(***************************************************************************)
EmptyKV == [k \in {} |-> ""]

RECURSIVE ParseLines(_, _)
ParseLines(lines, kv) ==
    IF Len(lines) = 0 THEN kv
    ELSE LET line == TrimSpace(lines[1])
             eq   == IndexByte(line, "=", 1)
         IN  IF ~HasPrefix(line, "BM_") \/ eq = 0
             THEN ParseLines(Tail(lines), kv)
             ELSE ParseLines(Tail(lines),
                      (SubSeq(line, 1, eq - 1) :> SubSeq(line, eq + 1, Len(line))) @@ kv)

ParseBM(output) == ParseLines(ScanLines(output), EmptyKV)

\* KeyValues.Get: a missing key reads as the empty string
Get(kv, key) == IF key \in DOMAIN kv THEN kv[key] ELSE ""

(***************************************************************************)
(* Hangar Service (internal/hangar/service.go).                            *)
(***************************************************************************)
\* hasSuccessMarker with "show" missing from the last case
hasSuccessMarker_NoShow(mode, kv) ==
    LET m == ToLower(TrimSpace(mode))
    IN  CASE m = "inventory" -> TrimSpace(Get(kv, "BM_PUBLIC_IP")) # ""
          [] m = "preflight" -> TrimSpace(Get(kv, "BM_PREFLIGHT")) = "OK"
          [] m \in {"apply", "destroy"} -> TrimSpace(Get(kv, "BM_RESULT_PROTOCOL")) # ""
          [] OTHER -> FALSE

hasSuccessMarker(mode, kv) ==
    LET m == ToLower(TrimSpace(mode))
    IN  CASE m = "inventory" -> TrimSpace(Get(kv, "BM_PUBLIC_IP")) # ""
          [] m = "preflight" -> TrimSpace(Get(kv, "BM_PREFLIGHT")) = "OK"
          [] m \in {"show", "apply", "destroy"} -> TrimSpace(Get(kv, "BM_RESULT_PROTOCOL")) # ""
          [] OTHER -> FALSE

RECURSIVE SanitizeLines(_)
SanitizeLines(lines) ==
    IF Len(lines) = 0 THEN ""
    ELSE LET line == TrimRightCR(lines[1])
         IN  IF HasPrefix(TrimSpace(line), "BM_")
             THEN SanitizeLines(Tail(lines))
             ELSE line \o "\n" \o SanitizeLines(Tail(lines))

sanitizeRemoteOutput(out) ==
    LET b == SanitizeLines(ScanLines(out))
    IN  IF Len(b) = 0 THEN "" ELSE TrimSpace(b)

tailString(s, max) ==
    IF max <= 0 \/ Len(s) <= max THEN s
    ELSE LET m == IF max < 80 THEN 80 ELSE max
         IN  TrimSpace("[...output truncated...]\n" \o SubSeq(s, Len(s) - m + 1, Len(s)))

redactedKeys(kv) ==
    SortStrings({k \in DOMAIN kv : ~Contains(ToUpper(k), "PASS")})

\* the byte bound of the error tail, runRemote's argument to tailString
TailMax == 8192

\* the text of runRemote's error for a failed run without success marker
RemoteError(mode, errText, out, kv) ==
    LET clean == sanitizeRemoteOutput(out)
        keys  == redactedKeys(kv)
        sanitized ==
            IF TrimSpace(clean) = "" /\ Len(keys) > 0
            THEN "parsed keys: " \o JoinWith(keys, ", ")
            ELSE clean
    IN  "remote command failed (mode=" \o mode \o "): " \o errText \o "\n"
            \o tailString(sanitized, TailMax)

\* what runRemote returns once the command has run: <<kv, out, err>>, err = "" for nil
RunOutcome(mode, out, errText) ==
    LET kv == ParseBM(out)
    IN  IF errText # "" /\ ~hasSuccessMarker(mode, kv)
        THEN [kv |-> kv, out |-> out, err |-> RemoteError(mode, errText, out, kv)]
        ELSE [kv |-> kv, out |-> out, err |-> ""]

(***************************************************************************)
(* Inputs of runRemote.                                                    *)
(***************************************************************************)
\* ActionInput values the callers build (zero value apart from Mode)
ActionInputOf(mode) ==
    [Mode |-> mode, Protocol |-> "", HTTPMode |-> "", ProxyPort |-> 0,
     NoFirewallChange |-> FALSE, ListenLocal |-> FALSE, SmartBlinder |-> FALSE,
     SmartBlinderIdleMinutes |-> 0, RotateCredentials |-> FALSE]

Modes == {"inventory", "preflight", "show", "apply", "destroy", "status", " Apply"}

ActionInputs == {ActionInputOf(m) : m \in Modes}

\* lines a remote run can print: logs, BM_ lines, and text that merely contains BM_
OutLines ==
    {"[remote] ERROR: boom", "", "BM_PUBLIC_IP=203.0.113.5", "BM_PREFLIGHT=OK",
     "BM_PREFLIGHT= OK", "BM_RESULT_PROTOCOL=HTTP", "BM_RESULT_PROTOCOL=",
     "BM_RESULT_PASS=topsecret", "  BM_RESULT_PASS=topsecret", "+BM_RESULT_PASS=topsecret"}

EOLs == {"\n", "\r\n"}

\* number of lines of the short remote outputs
MaxOutLines == 2

RECURSIVE OutputsUpTo(_)
OutputsUpTo(n) ==
    IF n = 0 THEN {""}
    ELSE LET prev == OutputsUpTo(n - 1)
         IN  prev \cup {l \o e \o p : l \in OutLines, e \in EOLs, p \in prev}

\* a last line without newline
Unterminated == {p \o l : p \in OutputsUpTo(MaxOutLines - 1), l \in OutLines}

\* outputs longer than the error tail: a short head followed by a long log line
LongOutputs ==
    {h \o "\n" \o Repeat("y", TailMax - n) :
        h \in {"+BM_RESULT_PASS=topsecret", "[remote] ERROR: boom",
               "BM_RESULT_PASS=topsecret\n+ printf BM_RESULT_PASS=topsecret"},
        n \in {24, 25, 26}}

\* outputs with a log line of the scanner's buffer size, or one byte less,
\* ahead of a BM_ line
OverlongOutputs ==
    {Repeat("y", MaxScanTokenSize - n) \o "\nBM_PREFLIGHT=OK\n" : n \in {0, 1}}

RemoteOutputs ==
    OutputsUpTo(MaxOutLines) \cup Unterminated \cup LongOutputs \cup OverlongOutputs

\* RunCombined's error: nil ("") or the exit status of the remote command
RunErrors == {"", "Process exited with status 1"}

\* shellJoin: every argument in single quotes, an embedded quote as '"'"'
RECURSIVE QuoteArg(_)
QuoteArg(p) ==
    IF p = "" THEN ""
    ELSE (IF Head(p) = "'" THEN "'\"'\"'" ELSE Head(p)) \o QuoteArg(Tail(p))

shellJoin(parts) == JoinWith([i \in 1..Len(parts) |-> "'" \o QuoteArg(parts[i]) \o "'"], " ")

RECURSIVE Itoa(_)
\* fmt.Sprintf("%d", n) for n >= 0
Itoa(n) ==
    IF n < 10 THEN Ch("0123456789", n + 1)
    ELSE Itoa(n \div 10) \o Ch("0123456789", (n % 10) + 1)

\* the argument list runRemote builds from the ActionInput
BuildArgs(in) ==
    <<"--mode", in.Mode>>
    \o (IF TrimSpace(in.Protocol) # "" THEN <<"--protocol", in.Protocol>> ELSE <<>>)
    \o (IF TrimSpace(in.HTTPMode) # "" THEN <<"--http-mode", in.HTTPMode>> ELSE <<>>)
    \o (IF in.ProxyPort > 0 THEN <<"--proxy-port", Itoa(in.ProxyPort)>> ELSE <<>>)
    \o (IF in.NoFirewallChange THEN <<"--no-firewall-change">> ELSE <<>>)
    \o (IF in.ListenLocal THEN <<"--listen-local">> ELSE <<>>)
    \o (IF in.Mode \in {"apply", "destroy", "preflight"}
        THEN (IF in.SmartBlinder THEN <<"--smart-blinder">> ELSE <<"--no-smart-blinder">>)
             \o (IF in.SmartBlinderIdleMinutes > 0
                 THEN <<"--smart-blinder-idle-minutes", Itoa(in.SmartBlinderIdleMinutes)>>
                 ELSE <<>>)
        ELSE <<>>)
    \o (IF in.RotateCredentials THEN <<"--rotate-credentials">> ELSE <<>>)

\* KeyValues.Bool
Bool(kv, key) == TrimSpace(ToLower(Get(kv, key))) \in {"1", "true", "yes"}

ZeroInventory ==
    [PublicIP |-> "",
     Socks5 |-> [Exists |-> FALSE, Active |-> FALSE, Port |-> "", User |-> "", Pass |-> "",
                 Mode |-> "", Managed |-> FALSE, Legacy |-> FALSE],
     HTTP |-> [Exists |-> FALSE, Active |-> FALSE, Port |-> "", User |-> "", Pass |-> "",
               Mode |-> "", Managed |-> FALSE, Legacy |-> FALSE],
     HangarStatus |-> "", MetadataExists |-> FALSE]

parseInventory(kv) ==
    LET given  == TrimSpace(Get(kv, "BM_HANGAR_STATUS"))
        status == IF given # "" THEN given
                  ELSE IF Bool(kv, "BM_SOCKS_EXISTS") \/ Bool(kv, "BM_HTTP_EXISTS")
                  THEN "online" ELSE "missing"
    IN  [PublicIP |-> Get(kv, "BM_PUBLIC_IP"),
         Socks5 |-> [Exists |-> Bool(kv, "BM_SOCKS_EXISTS"),
                     Active |-> Bool(kv, "BM_SOCKS_ACTIVE"),
                     Port |-> Get(kv, "BM_SOCKS_PORT"), User |-> Get(kv, "BM_SOCKS_USER"),
                     Pass |-> Get(kv, "BM_SOCKS_PASS"), Mode |-> Get(kv, "BM_SOCKS_MODE"),
                     Managed |-> FALSE, Legacy |-> FALSE],
         HTTP |-> [Exists |-> Bool(kv, "BM_HTTP_EXISTS"),
                   Active |-> Bool(kv, "BM_HTTP_ACTIVE"),
                   Port |-> Get(kv, "BM_HTTP_PORT"), User |-> Get(kv, "BM_HTTP_USER"),
                   Pass |-> Get(kv, "BM_HTTP_PASS"), Mode |-> Get(kv, "BM_HTTP_MODE"),
                   Managed |-> Bool(kv, "BM_HTTP_MANAGED"),
                   Legacy |-> Bool(kv, "BM_HTTP_LEGACY")],
         HangarStatus |-> status,
         MetadataExists |-> Bool(kv, "BM_METADATA_EXISTS")]

\* ships.Ship, as the store's callers and tests build it
ZeroShip ==
    [Name |-> "", Host |-> "", SSHPort |-> 0, SSHUser |-> "", Protocol |-> "",
     HTTPMode |-> "", ProxyPort |-> 0, NoFirewallChange |-> FALSE,
     ListenLocal |-> FALSE, SmartBlinder |-> FALSE, SmartBlinderIdleMinutes |-> 0]

\* ActionResult{}
ZeroActionResult ==
    [Protocol |-> "", HTTPMode |-> "", Host |-> "", Port |-> "", User |-> "", Pass |-> "",
     Action |-> "", FirewallNote |-> "", Note |-> "", RawOutput |-> "",
     Inventory |-> ZeroInventory, Values |-> EmptyKV]

IdleSvc ==
    [in |-> ActionInputOf(""), remoteOut |-> "", runErr |-> "", steps |-> <<>>,
     args |-> <<>>, kv |-> EmptyKV, out |-> "", err |-> "",
     ship |-> ZeroShip, res |-> ZeroActionResult]

\* a call about to be made: its input, and what the remote command will print
\* and how it will exit
PendingCall(in, out, errText) ==
    [IdleSvc EXCEPT !.in = in, !.remoteOut = out, !.runErr = errText]

\* a runRemote that issues the run whether or not the upload succeeded
runRemote_RunsAfterFailedUpload(call, connectOK, uploadOK) ==
    IF ~connectOK
    THEN [call EXCEPT !.steps = <<"connect">>,
                      !.err = "ssh connect: dial tcp: i/o timeout"]
    ELSE LET r == RunOutcome(call.in.Mode, call.remoteOut, call.runErr)
         IN  [call EXCEPT !.steps = <<"connect", "upload", "run", "parse", "rm", "close">>,
                          !.args = BuildArgs(call.in),
                          !.kv = r.kv, !.out = r.out,
                          !.err = IF ~uploadOK THEN "upload remote script: permission denied"
                                  ELSE r.err]

\* Service.runRemote: connect, upload, run, parse; the deferred removal of the
\* script and the deferred Close run on return, in that order
runRemote(call, connectOK, uploadOK) ==
    IF ~connectOK
    THEN [call EXCEPT !.steps = <<"connect">>,
                      !.err = "ssh connect: dial tcp: i/o timeout"]
    ELSE IF ~uploadOK
    THEN [call EXCEPT !.steps = <<"connect", "upload", "close">>,
                      !.err = "upload remote script: permission denied"]
    ELSE LET r == RunOutcome(call.in.Mode, call.remoteOut, call.runErr)
         IN  [call EXCEPT !.steps = <<"connect", "upload", "run", "parse", "rm", "close">>,
                          !.args = BuildArgs(call.in),
                          !.kv = r.kv, !.out = r.out, !.err = r.err]

RunRemoteCall ==
    /\ svc.steps = <<>>
    /\ \E connectOK \in BOOLEAN, uploadOK \in BOOLEAN :
           svc' = runRemote(svc, connectOK, uploadOK)
    /\ UNCHANGED <<trust, conns, host, run, sock, tun, ships, cache, drv, up, app>>

(***************************************************************************)
(* Idle values of the other components' variables.                         *)
(***************************************************************************)
IdleSock ==
    [pc |-> "idle", in |-> <<>>, header |-> <<>>, methods |-> <<>>, methodsRead |-> FALSE,
     req |-> <<>>, addr |-> <<>>, host |-> "", port |-> 0, target |-> "", wrote |-> <<>>,
     dialCalls |-> <<>>, connClosed |-> FALSE, remote |-> "none", ret |-> "",
     toRemote |-> "idle", toClient |-> "idle", up |-> 0, down |-> 0]

\* a supported target on which the agent has never run and squid was never
\* installed
IdleHost ==
    [supported |-> TRUE, pkgs |-> {}, user |-> FALSE,
     socksEnv |-> [exists |-> FALSE], socksUnit |-> [exists |-> FALSE],
     socks |-> [active |-> FALSE, listen |-> ""],
     squidConf |-> [exists |-> FALSE], squidBackup |-> [exists |-> FALSE],
     squid |-> [active |-> FALSE, listen |-> ""],
     httpEnv |-> [exists |-> FALSE], httpHtpasswd |-> [exists |-> FALSE],
     sidecarConf |-> [exists |-> FALSE], sidecarHtpasswd |-> [exists |-> FALSE],
     sidecarUnit |-> [exists |-> FALSE],
     sidecar |-> [active |-> FALSE, listen |-> ""],
     meta |-> [exists |-> FALSE], ufw |-> FALSE, fwRules |-> {}, drawn |-> 0]

\* Run has not been called
IdleTun ==
    [pc |-> "idle", ctx |-> "live", client |-> "none", ln |-> "none",
     closer |-> "none", handlers |-> <<>>, wg |-> 0, err |-> "", errCtx |-> "",
     ret |-> ""]

\* the password cache after NewPasswordCache, nobody calling
IdleCache == [m |-> EmptyKV, readers |-> {}, writer |-> 0, callers |-> <<>>, hist |-> <<>>]

\* cli.DefaultOptions
DefaultOptions ==
    [Host |-> "", ShipName |-> "", ListShips |-> FALSE, SSHPort |-> 22, SSHUser |-> "root",
     SSHPassword |-> "", Protocol |-> "", HTTPMode |-> "", ProxyPort |-> 0, Action |-> "",
     ShowInventory |-> FALSE, PreflightOnly |-> FALSE, NoFirewallChange |-> FALSE,
     ListenLocal |-> FALSE, SmartBlinder |-> TRUE, SmartBlinderIdleMinutes |-> 10,
     Yes |-> FALSE, ListenLocalSet |-> FALSE, SmartBlinderSet |-> FALSE,
     SmartBlinderIdleMinSet |-> FALSE]

\* the driver before Run: its options, what the inventory call and the remote
\* command of the Execute call will give, and nothing done yet
IdleDrv ==
    [opts |-> DefaultOptions, inv |-> [err |-> "", inv |-> ZeroInventory],
     remote |-> [out |-> "", runErr |-> ""], calls |-> <<>>, ship |-> ZeroShip,
     in |-> ActionInputOf(""), execErr |-> "", exit |-> 0, err |-> "", done |-> FALSE]

\* no remote file
NoRemoteFile == [exists |-> FALSE, content |-> "", mode |-> ""]

\* the SSH client before Upload: nothing to write, nothing at the remote path
IdleUp ==
    [content |-> "", mode |-> "", file |-> NoRemoteFile, fault |-> "", written |-> 0,
     sftp |-> "none", handle |-> "none", err |-> "", done |-> FALSE]

\* the cockpit before Run: no screen, an empty store, no password cached
IdleApp ==
    [pc |-> "idle", ship |-> ZeroShip, dir |-> EmptyKV, secrets |-> EmptyKV,
     status |-> EmptyKV, deleted |-> {}, err |-> ""]

\* an empty ships directory, no operation yet
IdleShips ==
    [dir |-> <<>>, op |-> "", name |-> "", arg |-> "none", ret |-> "none",
     list |-> <<>>, err |-> "", saved |-> {}, halfway |-> {}]

\* the variables the argument parsing of the script sets
AgentInput(mode, protocol, httpMode, port, noFirewall, rotate) ==
    [MODE |-> mode, PROTOCOL |-> protocol, HTTP_MODE_REQUEST |-> httpMode,
     PROXY_PORT |-> port, NO_FIREWALL_CHANGE |-> noFirewall,
     ROTATE_CREDENTIALS |-> rotate]

\* no run of the agent yet
IdleRun ==
    [n |-> 0, in |-> AgentInput("", "", "", "", FALSE, FALSE), fault |-> "none",
     exit |-> 0, kv |-> EmptyKV, die |-> "", repeat |-> FALSE, metaBefore |-> FALSE]

InitService ==
    /\ svc \in {PendingCall(in, out, errText) :
                    in \in ActionInputs, out \in RemoteOutputs, errText \in RunErrors}
    /\ trust = <<>>
    /\ app = IdleApp
    /\ up = IdleUp
    /\ drv = IdleDrv
    /\ cache = IdleCache
    /\ conns = <<>>
    /\ host = IdleHost
    /\ run = IdleRun
    /\ sock = IdleSock
    /\ tun = IdleTun
    /\ ships = IdleShips

NextService == RunRemoteCall

SpecService == InitService /\ [][NextService]_vars

\* Service.Inventory: runRemote in inventory mode, then parseInventory; the
\* decoded Inventory is kept in res.Inventory
Inventory(call, connectOK, uploadOK) ==
    LET r == runRemote([call EXCEPT !.in = ActionInputOf("inventory")], connectOK, uploadOK)
    IN  IF r.err # "" THEN [r EXCEPT !.err = "inventory failed: " \o r.err]
        ELSE IF DOMAIN r.kv = {}
        THEN [r EXCEPT !.err = "inventory returned no BM output\n" \o r.out]
        ELSE [r EXCEPT !.res = [ZeroActionResult EXCEPT !.Inventory = parseInventory(r.kv)]]

InventoryCall ==
    /\ svc.steps = <<>>
    /\ \E connectOK \in BOOLEAN, uploadOK \in BOOLEAN :
           svc' = Inventory(svc, connectOK, uploadOK)
    /\ UNCHANGED <<trust, conns, host, run, sock, tun, ships, cache, drv, up, app>>

\* lines of an inventory report, the status line in its variants
InventoryLines ==
    {"BM_HANGAR_STATUS=drift", "BM_HANGAR_STATUS=parked", "BM_HANGAR_STATUS= blinded",
     "BM_HANGAR_STATUS=", "BM_SOCKS_EXISTS=1", "BM_SOCKS_ACTIVE=1", "BM_HTTP_EXISTS=1",
     "BM_HTTP_ACTIVE=0", "BM_METADATA_EXISTS=1"}

\* number of lines of the inventory reports
MaxInventoryLines == 3

RECURSIVE InventoryBlocks(_)
InventoryBlocks(n) ==
    IF n = 0 THEN {""}
    ELSE LET prev == InventoryBlocks(n - 1)
         IN  prev \cup {b \o l \o "\n" : b \in prev, l \in InventoryLines}

InitInventory ==
    /\ svc \in {PendingCall(ActionInputOf("inventory"), out, errText) :
                    out \in InventoryBlocks(MaxInventoryLines), errText \in RunErrors}
    /\ trust = <<>>
    /\ app = IdleApp
    /\ up = IdleUp
    /\ drv = IdleDrv
    /\ cache = IdleCache
    /\ conns = <<>>
    /\ host = IdleHost
    /\ run = IdleRun
    /\ sock = IdleSock
    /\ tun = IdleTun
    /\ ships = IdleShips

NextInventory == InventoryCall

SpecInventory == InitInventory /\ [][NextInventory]_vars

\* Inventory returned a decoded Inventory
Decoded == svc.steps # <<>> /\ svc.err = ""

\* the Inventory invariant: missing or drift when no service exists, drift
\* when a service that exists is not active, online otherwise
InventoryInvariant(inv) ==
    IF ~inv.Socks5.Exists /\ ~inv.HTTP.Exists
    THEN inv.HangarStatus \in {"missing", "drift"}
    ELSE IF \/ inv.Socks5.Exists /\ ~inv.Socks5.Active
            \/ inv.HTTP.Exists /\ ~inv.HTTP.Active
    THEN inv.HangarStatus = "drift"
    ELSE inv.HangarStatus = "online"

\* C35: a decoded Inventory carries the BM_HANGAR_STATUS value of the report
\* unchanged when that value is not blank, and a status that satisfies the
\* Inventory invariant when the key is absent or blank
C35_StatusPreservedOrInvariant ==
    Decoded =>
        LET given == Get(svc.kv, "BM_HANGAR_STATUS")
            inv   == svc.res.Inventory
        IN  IF TrimSpace(given) # ""
            THEN inv.HangarStatus = given
            ELSE InventoryInvariant(inv)

\* the report names a service that exists and is not active, and no status
StatusFallbackOnInactive ==
    /\ Decoded
    /\ TrimSpace(Get(svc.kv, "BM_HANGAR_STATUS")) = ""
    /\ svc.res.Inventory.HTTP.Exists
    /\ ~svc.res.Inventory.HTTP.Active

\* the result Execute builds from what runRemote returned, the ship's host
\* standing in for an empty host only
ActionResultOf_EmptyOnly(ship, kv, out) ==
    [Protocol |-> Get(kv, "BM_RESULT_PROTOCOL"), HTTPMode |-> Get(kv, "BM_RESULT_HTTP_MODE"),
     Host |-> IF Get(kv, "BM_RESULT_HOST") = "" THEN ship.Host ELSE Get(kv, "BM_RESULT_HOST"),
     Port |-> Get(kv, "BM_RESULT_PORT"), User |-> Get(kv, "BM_RESULT_USER"),
     Pass |-> Get(kv, "BM_RESULT_PASS"), Action |-> Get(kv, "BM_RESULT_ACTION"),
     FirewallNote |-> Get(kv, "BM_RESULT_FIREWALL_NOTE"), Note |-> Get(kv, "BM_RESULT_NOTE"),
     RawOutput |-> out,
     Inventory |-> IF DOMAIN kv # {} /\ Get(kv, "BM_SOCKS_EXISTS") # ""
                   THEN parseInventory(kv) ELSE ZeroInventory,
     Values |-> kv]

\* the result Execute builds from what runRemote returned
ActionResultOf(ship, kv, out) ==
    [Protocol |-> Get(kv, "BM_RESULT_PROTOCOL"), HTTPMode |-> Get(kv, "BM_RESULT_HTTP_MODE"),
     Host |-> IF Get(kv, "BM_RESULT_HOST") = "" \/ Get(kv, "BM_RESULT_HOST") = "UNKNOWN"
              THEN ship.Host ELSE Get(kv, "BM_RESULT_HOST"),
     Port |-> Get(kv, "BM_RESULT_PORT"), User |-> Get(kv, "BM_RESULT_USER"),
     Pass |-> Get(kv, "BM_RESULT_PASS"), Action |-> Get(kv, "BM_RESULT_ACTION"),
     FirewallNote |-> Get(kv, "BM_RESULT_FIREWALL_NOTE"), Note |-> Get(kv, "BM_RESULT_NOTE"),
     RawOutput |-> out,
     Inventory |-> IF DOMAIN kv # {} /\ Get(kv, "BM_SOCKS_EXISTS") # ""
                   THEN parseInventory(kv) ELSE ZeroInventory,
     Values |-> kv]

\* Service.Execute: runRemote, then the result; an error returns ActionResult{}
Execute(call, connectOK, uploadOK) ==
    LET r == runRemote(call, connectOK, uploadOK)
    IN  IF r.err # "" THEN r
        ELSE [r EXCEPT !.res = ActionResultOf(call.ship, r.kv, r.out)]

ExecuteCall ==
    /\ svc.steps = <<>>
    /\ \E connectOK \in BOOLEAN, uploadOK \in BOOLEAN :
           svc' = Execute(svc, connectOK, uploadOK)
    /\ UNCHANGED <<trust, conns, host, run, sock, tun, ships, cache, drv, up, app>>

\* the ship of the Execute test
ExecuteShip == [ZeroShip EXCEPT !.Host = "91.98.67.180", !.SSHUser = "root", !.SSHPort = 22]

\* lines of a result block, the host line in its variants
ResultLines ==
    {"BM_RESULT_PROTOCOL=HTTP", "BM_RESULT_HOST=UNKNOWN", "BM_RESULT_HOST=",
     "BM_RESULT_HOST=198.51.100.7", "BM_RESULT_HOST=unknown", "BM_RESULT_HOST= UNKNOWN",
     "BM_SOCKS_EXISTS=1", "[remote] applying"}

\* number of lines of the result blocks
MaxResultLines == 2

RECURSIVE ResultBlocks(_)
ResultBlocks(n) ==
    IF n = 0 THEN {""}
    ELSE LET prev == ResultBlocks(n - 1)
         IN  prev \cup {p \o l \o "\n" : p \in prev, l \in ResultLines}

InitExecute ==
    /\ svc \in {[PendingCall(ActionInputOf(mode), out, errText) EXCEPT !.ship = ExecuteShip] :
                    mode \in {"apply", "show", "destroy"},
                    out \in ResultBlocks(MaxResultLines), errText \in RunErrors}
    /\ trust = <<>>
    /\ app = IdleApp
    /\ up = IdleUp
    /\ drv = IdleDrv
    /\ cache = IdleCache
    /\ conns = <<>>
    /\ host = IdleHost
    /\ run = IdleRun
    /\ sock = IdleSock
    /\ tun = IdleTun
    /\ ships = IdleShips

NextExecute == ExecuteCall

SpecExecute == InitExecute /\ [][NextExecute]_vars

\* the command was run (connect and upload succeeded)
Ran == "run" \in {svc.steps[i] : i \in 1..Len(svc.steps)}

\* the place of a step among the steps of the call, 0 when it was not taken
StepAt(name) ==
    IF \E i \in DOMAIN svc.steps : svc.steps[i] = name
    THEN CHOOSE i \in DOMAIN svc.steps : svc.steps[i] = name
    ELSE 0

UploadFailed == svc.steps # <<>> /\ HasPrefix(svc.err, "upload remote script")

\* C30: within one Inventory or Execute call the connection is opened first,
\* then the script is uploaded, then run, then its output parsed; the run is
\* not issued when the upload failed; the removal of the temporary script is
\* issued after the run, and the connection is closed after that removal and
\* as the last step
C30_StepsInOrder ==
    /\ \A i, j \in DOMAIN svc.steps : svc.steps[i] = svc.steps[j] => i = j
    /\ svc.steps # <<>> => StepAt("connect") = 1
    /\ StepAt("upload") # 0 => StepAt("connect") < StepAt("upload")
    /\ StepAt("run") # 0 => 0 < StepAt("upload") /\ StepAt("upload") < StepAt("run")
    /\ StepAt("parse") # 0 => 0 < StepAt("run") /\ StepAt("run") < StepAt("parse")
    /\ UploadFailed => StepAt("run") = 0
    /\ StepAt("rm") # 0 => 0 < StepAt("run") /\ StepAt("run") < StepAt("rm")
    /\ StepAt("run") # 0 => StepAt("rm") # 0
    /\ StepAt("rm") # 0 => StepAt("rm") < StepAt("close")
    /\ StepAt("close") # 0 => StepAt("close") = Len(svc.steps)

\* an inventory call ran the script and closed the connection
C30_Witness ==
    /\ svc.in.Mode = "inventory"
    /\ Ran
    /\ StepAt("close") = Len(svc.steps)
    /\ StepAt("rm") = StepAt("close") - 1

\* the connection of the call was opened
Connected == StepAt("upload") # 0

\* C31: on every exit path of a call after the SSH connection was opened, a
\* failed upload and a failed run included, the removal of the temporary
\* script is attempted before the connection is closed
C31_RemovalBeforeClose ==
    Connected =>
        /\ StepAt("close") # 0
        /\ 0 < StepAt("rm") /\ StepAt("rm") < StepAt("close")

\* the run was issued, exited non-zero and runRemote returned an error
RunFailed == Ran /\ svc.runErr # "" /\ svc.err # ""

\* position i of text e is the first byte of a line (lines split at "\n")
BeginsLine(e, i) == i = 1 \/ Ch(e, i - 1) = "\n"

\* C1: the error of a failed remote run contains no line beginning with BM_,
\* also when the sanitised text was cut to its 8192-byte tail
C1_NoBMLineInError ==
    RunFailed =>
        \A i \in 1..(Len(svc.err) - 2) :
            SubSeq(svc.err, i, i + 2) = "BM_" => ~BeginsLine(svc.err, i)

\* the command was run and exited non-zero
ExitedNonZero == Ran /\ svc.runErr # ""

\* the success marker as the claim words it: mode names and values compared as they are
MarkerAsWritten(mode, kv) ==
    \/ mode = "inventory" /\ Get(kv, "BM_PUBLIC_IP") # ""
    \/ mode = "preflight" /\ Get(kv, "BM_PREFLIGHT") = "OK"
    \/ mode \in {"show", "apply", "destroy"} /\ Get(kv, "BM_RESULT_PROTOCOL") # ""

\* the success marker with the mode name trimmed and lower-cased and the
\* value trimmed before the comparison
MarkerNormalised(mode, kv) ==
    LET m == ToLower(TrimSpace(mode))
    IN  \/ m = "inventory" /\ TrimSpace(Get(kv, "BM_PUBLIC_IP")) # ""
        \/ m = "preflight" /\ TrimSpace(Get(kv, "BM_PREFLIGHT")) = "OK"
        \/ m \in {"show", "apply", "destroy"} /\ TrimSpace(Get(kv, "BM_RESULT_PROTOCOL")) # ""

NamesMode(err, mode) == HasPrefix(err, "remote command failed (mode=" \o mode \o "): ")

\* C7 as stated: a run that exits non-zero is successful iff the marker of its
\* mode was parsed (BM_PREFLIGHT equal to OK, mode names as written), else an
\* error naming the mode
C7_MarkerAsWritten ==
    ExitedNonZero =>
        /\ (svc.err = "") <=> MarkerAsWritten(svc.in.Mode, ParseBM(svc.remoteOut))
        /\ svc.err # "" => NamesMode(svc.err, svc.in.Mode)

\* C7 amended: a run that exits non-zero is successful iff the marker of its
\* mode was parsed, the mode name compared after trimming and lower-casing and
\* the marker value after trimming; otherwise the error names the mode
C7_MarkerDecidesNonZeroExit ==
    ExitedNonZero =>
        /\ (svc.err = "") <=> MarkerNormalised(svc.in.Mode, ParseBM(svc.remoteOut))
        /\ svc.err # "" => NamesMode(svc.err, svc.in.Mode)

\* a show run exited non-zero after printing BM_RESULT_PROTOCOL and was accepted
C7_Witness ==
    /\ ExitedNonZero
    /\ svc.in.Mode = "show"
    /\ Get(svc.kv, "BM_RESULT_PROTOCOL") = "HTTP"
    /\ svc.err = ""

\* the positions where the lines of a text begin (lines end at "\n")
LineStarts(s) == {a \in {1} \cup {i + 1 : i \in Newlines(s)} : a <= Len(s)}

\* the line of s that begins at a, without its end of line, spaces trimmed
LineAt(s, a) ==
    LET rest == {i \in Newlines(s) : i >= a}
        nl   == IF rest = {} THEN Len(s) + 1
                ELSE CHOOSE i \in rest : \A j \in rest : i <= j
    IN  TrimSpace(DropCR(SubSeq(s, a, nl - 1)))

\* a line whose first non-space characters are BM_ and that has an "="
IsBMLine(l) == HasPrefix(l, "BM_") /\ IndexByte(l, "=", 1) > 0

KeyOf(l) == SubSeq(l, 1, IndexByte(l, "=", 1) - 1)

ValueOf(l) == SubSeq(l, IndexByte(l, "=", 1) + 1, Len(l))

\* the pairs the BM_ lines of a text give, the last line of each key counting
LastBMPairs(s) ==
    LET bm == {a \in LineStarts(s) : IsBMLine(LineAt(s, a))}
    IN  {<<KeyOf(LineAt(s, a)), ValueOf(LineAt(s, a))>> :
            a \in {x \in bm : \A y \in bm :
                                 y > x => KeyOf(LineAt(s, y)) # KeyOf(LineAt(s, x))}}

ParsedPairs(kv) == {<<k, kv[k]>> : k \in DOMAIN kv}

\* C17: the pairs ParseBM returns for an output are exactly those of the
\* output's lines that begin, after leading spaces, with BM_ and hold an "=":
\* the key is the text before the first "=", the value the text after it, and
\* the last line of a key counts; other lines contribute nothing.  (Lines are
\* taken with the surrounding white space trimmed.)
C17_ParseIffLine ==
    Ran => ParsedPairs(svc.kv) = LastBMPairs(svc.out)

\* Execute has returned a result
Executed == svc.steps # <<>> /\ svc.err = ""

\* C25: the host of Execute's result is the ship's host whenever the remote's
\* BM_RESULT_HOST is empty, absent or literally UNKNOWN, and the remote's
\* value unchanged otherwise.
C25_ResultHost ==
    Executed =>
        LET remoteHost == Get(svc.kv, "BM_RESULT_HOST")
        IN  /\ remoteHost \in {"", "UNKNOWN"} => svc.res.Host = svc.ship.Host
            /\ remoteHost \notin {"", "UNKNOWN"} => svc.res.Host = remoteHost

\* the remote reported UNKNOWN and the result carries the ship's host
C25_Witness ==
    /\ Executed
    /\ <<"BM_RESULT_HOST", "UNKNOWN">> \in LastBMPairs(svc.out)
    /\ svc.res.Host = "91.98.67.180"

(***************************************************************************)
(* SSH transport, host-key policy (internal/sshx: ConnectWithOptions).     *)
(*                                                                         *)
(* trust is the known_hosts file, one record [addr, key] per line.  A      *)
(* connect loads the file when it starts (knownhosts.New) and checks the   *)
(* key the server presents against that snapshot in the HostKeyCallback,   *)
(* which ssh.Dial invokes later; connects may overlap.                     *)
(***************************************************************************)
HostKeyAcceptNew == 0
HostKeyStrict == 1
HostKeyInsecureIgnore == 2

HostKeyModes == {HostKeyAcceptNew, HostKeyStrict, HostKeyInsecureIgnore}

\* addresses (host:port) the operator connects to
Addrs == {"a.example:22", "b.example:22"}

\* public keys a server can present: key type and key material
Keys ==
    {[type |-> "ssh-ed25519", blob |-> "K1"], [type |-> "ssh-ed25519", blob |-> "K2"],
     [type |-> "ssh-rsa", blob |-> "K3"]}

NoKey == [type |-> "", blob |-> ""]

\* number of connects in one behaviour
MaxConnects == 2

\* knownhosts.Line: the record appended for (hostname, key)
KnownHostsLine(addr, key) == [addr |-> addr, key |-> key]

\* knownhosts.New(khPath)'s callback: among the lines of the snapshot that
\* match the address the first of each key type counts; no line at all is a
\* KeyError with empty Want ("unknown"), a known key of the same type that is
\* equal passes ("ok"), anything else is a KeyError with Want ("mismatch")
KnownHostsCheck(kh, addr, key) ==
    LET matching == {i \in 1..Len(kh) : kh[i].addr = addr}
        sameType == {i \in matching : kh[i].key.type = key.type}
    IN  IF matching = {} THEN "unknown"
        ELSE IF sameType = {} THEN "mismatch"
        ELSE LET first == CHOOSE i \in sameType : \A j \in sameType : i <= j
             IN  IF kh[first].key = key THEN "ok" ELSE "mismatch"

\* HostKeyCallback that asks for accept-new before it looks at the known keys
HostKeyCallback_AcceptChanged(acceptNew, kh, addr, key, appendOK) ==
    LET v == KnownHostsCheck(kh, addr, key)
    IN  IF v = "ok" THEN [verdict |-> "ok", append |-> FALSE]
        ELSE IF ~acceptNew THEN [verdict |-> v, append |-> FALSE]
        ELSE IF ~appendOK THEN [verdict |-> "trust new host key failed", append |-> FALSE]
        ELSE [verdict |-> "ok", append |-> TRUE]

\* HostKeyCallback that records every key it accepts in accept-new mode
HostKeyCallback_AlwaysAppend(acceptNew, kh, addr, key, appendOK) ==
    LET v == KnownHostsCheck(kh, addr, key)
    IN  IF v = "ok" THEN [verdict |-> "ok", append |-> acceptNew]
        ELSE IF v = "unknown"
        THEN IF ~acceptNew THEN [verdict |-> "unknown", append |-> FALSE]
             ELSE IF ~appendOK THEN [verdict |-> "trust new host key failed", append |-> FALSE]
             ELSE [verdict |-> "ok", append |-> TRUE]
        ELSE [verdict |-> "mismatch", append |-> FALSE]

\* HostKeyCallback that trusts a first-seen key in every mode
HostKeyCallback_IgnoresMode(acceptNew, kh, addr, key, appendOK) ==
    LET v == KnownHostsCheck(kh, addr, key)
    IN  IF v = "ok" THEN [verdict |-> "ok", append |-> FALSE]
        ELSE IF v = "unknown"
        THEN IF ~appendOK THEN [verdict |-> "trust new host key failed", append |-> FALSE]
             ELSE [verdict |-> "ok", append |-> TRUE]
        ELSE [verdict |-> "mismatch", append |-> FALSE]

\* the HostKeyCallback of ConnectWithOptions: the verdict, and whether the key
\* is appended to the trust file
HostKeyCallback(acceptNew, kh, addr, key, appendOK) ==
    LET v == KnownHostsCheck(kh, addr, key)
    IN  IF v = "ok" THEN [verdict |-> "ok", append |-> FALSE]
        ELSE IF v = "unknown"
        THEN IF ~acceptNew THEN [verdict |-> "unknown", append |-> FALSE]
             ELSE IF ~appendOK THEN [verdict |-> "trust new host key failed", append |-> FALSE]
             ELSE [verdict |-> "ok", append |-> TRUE]
        ELSE [verdict |-> "mismatch", append |-> FALSE]

\* an appendKnownHost that opens the file with O_TRUNC
appendKnownHost_Truncates(file, addr, key) == <<KnownHostsLine(addr, key)>>

\* appendKnownHost: one write of the whole line to the file opened with
\* O_APPEND, which puts it at the end the file has at the time of the write
appendKnownHost(file, addr, key) == Append(file, KnownHostsLine(addr, key))

\* ConnectWithOptions up to the point where ssh.Dial is called: the trust
\* file is prepared and loaded unless verification is switched off
ConnectStart(addr, mode, pathSet) ==
    /\ Len(conns) < MaxConnects
    /\ conns' = Append(conns,
          [after |-> {k \in 1..Len(conns) : conns[k].state = "done"}] @@
          IF mode = HostKeyInsecureIgnore
          THEN [addr |-> addr, mode |-> mode, kh |-> <<>>, startLen |-> Len(trust),
                endLen |-> 0, key |-> NoKey, state |-> "dialing", result |-> "",
                appended |-> FALSE]
          ELSE IF ~pathSet
          THEN [addr |-> addr, mode |-> mode, kh |-> <<>>, startLen |-> Len(trust),
                endLen |-> Len(trust), key |-> NoKey, state |-> "done",
                result |-> "ssh known_hosts path not set", appended |-> FALSE]
          ELSE [addr |-> addr, mode |-> mode, kh |-> trust, startLen |-> Len(trust),
                endLen |-> 0, key |-> NoKey, state |-> "dialing", result |-> "",
                appended |-> FALSE])
    /\ UNCHANGED <<trust, svc, host, run, sock, tun, ships, cache, drv, up, app>>

\* ssh.Dial: the server presents a key and the callback decides.  When it
\* accepts the key the password authentication follows; when it trusts a new
\* key it has opened the trust file (os.OpenFile in appendKnownHost) and the
\* write is the connect's next step
ConnectDial(c, key, appendOK, authOK) ==
    /\ c \in 1..Len(conns)
    /\ conns[c].state = "dialing"
    /\ LET r == IF conns[c].mode = HostKeyInsecureIgnore
                THEN [verdict |-> "ok", append |-> FALSE]
                ELSE HostKeyCallback(conns[c].mode = HostKeyAcceptNew, conns[c].kh,
                                     conns[c].addr, key, appendOK)
       IN  conns' = [conns EXCEPT ![c] =
               IF r.append
               THEN [@ EXCEPT !.key = key, !.state = "appending"]
               ELSE [@ EXCEPT !.key = key, !.state = "done", !.endLen = Len(trust),
                              !.result = IF r.verdict # "ok" THEN r.verdict
                                         ELSE IF authOK THEN "connected"
                                         ELSE "unable to authenticate"]]
    /\ UNCHANGED <<trust, svc, host, run, sock, tun, ships, cache, drv, up, app>>

\* the rest of appendKnownHost: f.WriteString(line), f.Close(); the callback
\* returns and the authentication follows
ConnectAppend(c, writeOK, authOK) ==
    /\ c \in 1..Len(conns)
    /\ conns[c].state = "appending"
    /\ LET file == IF writeOK THEN appendKnownHost(trust, conns[c].addr, conns[c].key)
                   ELSE trust
       IN  /\ trust' = file
           /\ conns' = [conns EXCEPT ![c] =
                  [@ EXCEPT !.state = "done", !.appended = writeOK,
                            !.endLen = Len(file),
                            !.result = IF ~writeOK THEN "trust new host key failed"
                                       ELSE IF authOK THEN "connected"
                                       ELSE "unable to authenticate"]]
    /\ UNCHANGED <<svc, host, run, sock, tun, ships, cache, drv, up, app>>

ConnectStartAny ==
    \E addr \in Addrs, mode \in HostKeyModes, pathSet \in BOOLEAN :
        ConnectStart(addr, mode, pathSet)

ConnectDialAny ==
    \E c \in 1..Len(conns), key \in Keys, appendOK \in BOOLEAN, authOK \in BOOLEAN :
        ConnectDial(c, key, appendOK, authOK)

ConnectAppendAny ==
    \E c \in 1..Len(conns), writeOK \in BOOLEAN, authOK \in BOOLEAN :
        ConnectAppend(c, writeOK, authOK)

InitHostKey ==
    /\ trust = <<>>
    /\ app = IdleApp
    /\ up = IdleUp
    /\ drv = IdleDrv
    /\ cache = IdleCache
    /\ conns = <<>>
    /\ svc = IdleSvc
    /\ host = IdleHost
    /\ run = IdleRun
    /\ sock = IdleSock
    /\ tun = IdleTun
    /\ ships = IdleShips

NextHostKey == ConnectStartAny \/ ConnectDialAny \/ ConnectAppendAny

SpecHostKey == InitHostKey /\ [][NextHostKey]_vars

\* the keys recorded for an address in a trust file
RecordedKeys(file, addr) == {file[i].key : i \in {j \in 1..Len(file) : file[j].addr = addr}}

\* the trust file as connect c found it when it started (the file only grows)
FileAtStart(c) == SubSeq(trust, 1, conns[c].startLen)

\* the host key of connect c was accepted
KeyAccepted(c) == conns[c].result \in {"connected", "unable to authenticate"}

\* connect c is an accept-new connect whose server has presented a key
VerifiedAcceptNew(c) ==
    /\ conns[c].state = "done"
    /\ conns[c].mode = HostKeyAcceptNew
    /\ conns[c].key # NoKey

\* C2: in accept-new mode a connect that starts when a key is recorded for its
\* hostname and presents a key that is not recorded for it fails with
\* reason=mismatch, and its step leaves the trust file unchanged
C2_MismatchRefused ==
    [][\A c \in 1..Len(conns) :
          (/\ conns[c].state = "dialing"
           /\ conns'[c].state = "done"
           /\ conns[c].mode = HostKeyAcceptNew
           /\ RecordedKeys(FileAtStart(c), conns[c].addr) # {}
           /\ conns'[c].key \notin RecordedKeys(FileAtStart(c), conns[c].addr))
          => (conns'[c].result = "mismatch" /\ trust' = trust)]_vars

\* a key was recorded by one connect and a later connect with another key was refused
C2_Witness ==
    \E c \in 1..Len(conns), d \in 1..Len(conns) :
        /\ VerifiedAcceptNew(c) /\ conns[c].appended
        /\ VerifiedAcceptNew(d) /\ c \in conns[d].after
        /\ conns[d].addr = conns[c].addr
        /\ conns[d].key # conns[c].key
        /\ conns[d].result = "mismatch"
        /\ Len(trust) = 1

\* connect d follows connect c: same hostname, same key, accept-new, d started
\* after c had returned, the hostname had no record when c verified the key,
\* and c's write to the trust file did not fail
Successive(c, d) ==
    /\ VerifiedAcceptNew(c) /\ VerifiedAcceptNew(d)
    /\ c \in conns[d].after
    /\ conns[c].addr = conns[d].addr
    /\ conns[c].key = conns[d].key
    /\ conns[c].result # "trust new host key failed"
    /\ \A i \in 1..Len(trust) :
           (trust[i].addr = conns[c].addr /\ i <= conns[c].endLen)
           => (i = conns[c].endLen /\ conns[c].appended)

\* C3: of two successive accept-new connects to one hostname with the same
\* previously unrecorded key the first appends the record and is accepted, the
\* second is accepted and appends nothing
C3_OneRecordForTwoConnects ==
    \A c \in 1..Len(conns), d \in 1..Len(conns) :
        Successive(c, d) =>
            /\ conns[c].appended /\ KeyAccepted(c)
            /\ ~conns[d].appended /\ KeyAccepted(d)
            /\ trust[conns[c].endLen] = KnownHostsLine(conns[c].addr, conns[c].key)

\* two successive connects with the same new key have both connected
C3_Witness ==
    \E c \in 1..Len(conns), d \in 1..Len(conns) :
        /\ Successive(c, d)
        /\ conns[c].result = "connected"
        /\ conns[d].result = "connected"
        /\ Len(trust) = 1

\* the connects that have written a record to the trust file
Appenders == {c \in 1..Len(conns) : conns[c].state = "done" /\ conns[c].appended}

\* connects c and d overlap: neither started after the other had returned
Overlap(c, d) == c # d /\ c \notin conns[d].after /\ d \notin conns[c].after

ConcurrentFirstConnects(c, d) ==
    /\ Overlap(c, d)
    /\ VerifiedAcceptNew(c) /\ VerifiedAcceptNew(d)
    /\ conns[c].addr = conns[d].addr
    /\ RecordedKeys(FileAtStart(c), conns[c].addr) = {}
    /\ RecordedKeys(FileAtStart(d), conns[d].addr) = {}

\* the lines of the trust file that are records for an address
RecordsFor(addr) == {i \in 1..Len(trust) : trust[i].addr = addr}

\* C37: after two concurrent accept-new connects to one previously unrecorded
\* hostname the trust file has at most one record for that hostname, and two
\* such connects that were shown different keys are not both accepted
C37_ConcurrentConnectsOneRecord ==
    \A c \in 1..Len(conns), d \in 1..Len(conns) :
        ConcurrentFirstConnects(c, d) =>
            /\ Cardinality(RecordsFor(conns[c].addr)) <= 1
            /\ conns[c].key # conns[d].key => ~(KeyAccepted(c) /\ KeyAccepted(d))

\* connect c is a strict connect
Strict(c) == conns[c].mode = HostKeyStrict

\* a step of connect c
StepOf(c) == conns'[c] # conns[c]

\* C15: a strict connect passes host-key verification only if the presented
\* key is recorded for the hostname in the trust file it loaded; a key that is
\* not recorded fails with reason=unknown when the file has no key for the
\* hostname and with reason=mismatch when it has another; and no step of a
\* strict connect writes to the trust file.
C15_StrictNeverLearns ==
    [][\A c \in 1..Len(conns) :
          (Strict(c) /\ StepOf(c)) =>
              /\ trust' = trust
              /\ conns'[c].state # "appending" /\ ~conns'[c].appended
              /\ (conns'[c].state = "done" /\ conns'[c].key # NoKey) =>
                    LET known == RecordedKeys(conns[c].kh, conns[c].addr)
                        res   == conns'[c].result
                    IN  /\ res \in {"connected", "unable to authenticate"}
                               => conns'[c].key \in known
                        /\ (conns'[c].key \notin known /\ known = {}) => res = "unknown"
                        /\ (conns'[c].key \notin known /\ known # {}) => res = "mismatch"]_vars

\* after an accept-new connect recorded a key, a strict connect that was shown
\* another key was refused and the file still holds the one record
C15_Witness ==
    \E c \in Appenders, d \in 1..Len(conns) :
        /\ Strict(d) /\ conns[d].state = "done" /\ c \in conns[d].after
        /\ conns[d].addr = conns[c].addr
        /\ conns[d].key # NoKey /\ conns[d].key # conns[c].key
        /\ conns[d].result = "mismatch"
        /\ trust = <<KnownHostsLine(conns[c].addr, conns[c].key)>>

(***************************************************************************)
(* SOCKS5 handler (internal/tunnel/socks5.go: HandleConn, sendReply).      *)
(*                                                                         *)
(* Bytes are numbers 0..255.  sock.in holds the bytes the client sends     *)
(* before it closes its side; io.ReadFull takes n of them or fails.        *)
(***************************************************************************)
socks5Version == 5
authNone == 0
authNoAccept == 255
cmdConnect == 1
atypIPv4 == 1
atypDomain == 3
atypIPv6 == 4
repSuccess == 0
repFailure == 1
repNotAllowed == 2
repHostUnreach == 4

\* string(b) for the bytes of host names: letters, digits, "-", "." and ":"
Chr(b) ==
    IF b \in 48..57 THEN Ch("0123456789", b - 47)
    ELSE IF b \in 97..122 THEN Ch(LowerLetters, b - 96)
    ELSE IF b \in 65..90 THEN Ch(UpperLetters, b - 64)
    ELSE IF b = 45 THEN "-"
    ELSE IF b = 46 THEN "."
    ELSE IF b = 58 THEN ":"
    ELSE "?"

RECURSIVE BytesToString(_)
\* string(domain)
BytesToString(bs) == IF Len(bs) = 0 THEN "" ELSE Chr(bs[1]) \o BytesToString(Tail(bs))

RECURSIVE Hex(_)
\* lower-case hexadecimal without leading zeros
Hex(n) ==
    IF n < 16 THEN Ch("0123456789abcdef", n + 1)
    ELSE Hex(n \div 16) \o Ch("0123456789abcdef", (n % 16) + 1)

\* net.IP.To4 of a 16-byte address: the last four bytes of an IPv4-mapped address
IsIPv4Mapped(a) == (\A i \in 1..10 : a[i] = 0) /\ a[11] = 255 /\ a[12] = 255

DottedQuad(a) == Itoa(a[1]) \o "." \o Itoa(a[2]) \o "." \o Itoa(a[3]) \o "." \o Itoa(a[4])

\* the eight 16-bit groups of a 16-byte address
Groups(a) == [g \in 1..8 |-> a[2 * g - 1] * 256 + a[2 * g]]

\* length of the run of zero groups that starts at group g
RECURSIVE ZeroRun(_, _)
ZeroRun(gs, g) == IF g > 8 \/ gs[g] # 0 THEN 0 ELSE 1 + ZeroRun(gs, g + 1)

RECURSIVE HexGroups(_, _, _)
\* groups from..to joined by ":"
HexGroups(gs, from, to) ==
    IF from > to THEN ""
    ELSE IF from = to THEN Hex(gs[from])
    ELSE Hex(gs[from]) \o ":" \o HexGroups(gs, from + 1, to)

\* net.IP.String: dotted quad for 4-byte and IPv4-mapped addresses, else
\* the colon form with the first longest run of two or more zero groups as "::"
IPString(a) ==
    IF Len(a) = 4 THEN DottedQuad(a)
    ELSE IF IsIPv4Mapped(a) THEN DottedQuad(SubSeq(a, 13, 16))
    ELSE LET gs   == Groups(a)
             best == CHOOSE g \in 1..8 :
                        \A h \in 1..8 : \/ ZeroRun(gs, g) > ZeroRun(gs, h)
                                        \/ (ZeroRun(gs, g) = ZeroRun(gs, h) /\ g <= h)
             n    == ZeroRun(gs, best)
         IN  IF n < 2 THEN HexGroups(gs, 1, 8)
             ELSE HexGroups(gs, 1, best - 1) \o "::" \o HexGroups(gs, best + n, 8)

\* a JoinHostPort that never brackets the host
JoinHostPort_Bare(h, port) == h \o ":" \o port

\* net.JoinHostPort
JoinHostPort(h, port) ==
    IF IndexByte(h, ":", 1) # 0 THEN "[" \o h \o "]:" \o port ELSE h \o ":" \o port

NilAddr == [kind |-> "nil"]

TCPAddr(ip, port) == [kind |-> "tcp", ip |-> ip, port |-> port]

\* sendReply: VER REP RSV ATYP BND.ADDR BND.PORT; bindAddr is nil, a TCP
\* address whose ip has 4 or 16 bytes, or an address of another type
sendReply(rep, bindAddr) ==
    IF bindAddr.kind # "tcp" THEN <<socks5Version, rep, 0, atypIPv4, 0, 0, 0, 0, 0, 0>>
    ELSE LET ip4 == IF Len(bindAddr.ip) = 4 THEN bindAddr.ip
                    ELSE IF IsIPv4Mapped(bindAddr.ip) THEN SubSeq(bindAddr.ip, 13, 16)
                    ELSE <<0, 0, 0, 0>>
         IN  <<socks5Version, rep, 0, atypIPv4>> \o ip4
                 \o <<(bindAddr.port \div 256) % 256, bindAddr.port % 256>>

(***************************************************************************)
(* HandleConn, one action per read, write or dial of the handler.          *)
(* sock.wrote lists the byte slices the handler hands to conn.Write, in    *)
(* order; sock.dialCalls lists the calls of dialFn.                        *)
(***************************************************************************)
CanRead(s, n) == Len(s.in) >= n

Take(s, n) == SubSeq(s.in, 1, n)

Drop(s, n) == [s EXCEPT !.in = SubSeq(s.in, n + 1, Len(s.in))]

\* a return that closes the client connection only
Return_LeavesRemoteOpen(s, err) ==
    [s EXCEPT !.pc = "returned", !.ret = err, !.connClosed = TRUE]

\* return err; the deferred remote.Close and conn.Close run
Return(s, err) ==
    [s EXCEPT !.pc = "returned", !.ret = err, !.connClosed = TRUE,
              !.remote = IF @ = "open" THEN "closed" ELSE @]

\* io.ReadFull failed: the client closed before sending n bytes
ReadError(s, what) == Return([s EXCEPT !.in = <<>>], what)

Write(s, bytes) == [s EXCEPT !.wrote = Append(@, bytes)]

ReadAuthHeader(s) ==
    IF ~CanRead(s, 2) THEN ReadError(s, "read auth header")
    ELSE LET s1 == [Drop(s, 2) EXCEPT !.header = Take(s, 2)]
         IN  IF s1.header[1] # socks5Version
             THEN Return(s1, "unsupported SOCKS version")
             ELSE [s1 EXCEPT !.pc = "methods"]

hasNoAuth_EmptyListAccepted(methods) ==
    Len(methods) = 0 \/ \E i \in 1..Len(methods) : methods[i] = authNone

hasNoAuth(methods) == \E i \in 1..Len(methods) : methods[i] = authNone

NegotiateAuth(s, writeOK) ==
    LET n == s.header[2]
    IN  IF ~CanRead(s, n) THEN ReadError(s, "read auth methods")
        ELSE LET s1 == [Drop(s, n) EXCEPT !.methods = Take(s, n), !.methodsRead = TRUE]
             IN  IF ~hasNoAuth(s1.methods)
                 THEN Return(Write(s1, <<socks5Version, authNoAccept>>),
                             "client does not support no-auth")
                 ELSE IF ~writeOK
                 THEN Return(Write(s1, <<socks5Version, authNone>>), "write auth response")
                 ELSE [Write(s1, <<socks5Version, authNone>>) EXCEPT !.pc = "request"]

UnsupportedCommand_BindAllowed(req) == req[2] \notin {cmdConnect, 2}

UnsupportedCommand(req) == req[2] # cmdConnect

ReadRequest(s) ==
    IF ~CanRead(s, 4) THEN ReadError(s, "read request")
    ELSE LET s1 == [Drop(s, 4) EXCEPT !.req = Take(s, 4)]
         IN  IF s1.req[1] # socks5Version
             THEN Return(s1, "bad SOCKS version in request")
             ELSE IF UnsupportedCommand(s1.req)
             THEN Return(Write(s1, sendReply(repNotAllowed, NilAddr)), "unsupported command")
             ELSE [s1 EXCEPT !.pc = "address"]

ReadAddress(s) ==
    IF s.req[4] = atypIPv4
    THEN IF ~CanRead(s, 4) THEN ReadError(s, "read ipv4 addr")
         ELSE [Drop(s, 4) EXCEPT !.addr = Take(s, 4), !.host = IPString(Take(s, 4)),
                                 !.pc = "port"]
    ELSE IF s.req[4] = atypIPv6
    THEN IF ~CanRead(s, 16) THEN ReadError(s, "read ipv6 addr")
         ELSE [Drop(s, 16) EXCEPT !.addr = Take(s, 16), !.host = IPString(Take(s, 16)),
                                  !.pc = "port"]
    ELSE IF s.req[4] = atypDomain
    THEN IF ~CanRead(s, 1) THEN ReadError(s, "read domain length")
         ELSE LET n  == s.in[1]
                  s1 == Drop(s, 1)
              IN  IF ~CanRead(s1, n) THEN ReadError(s1, "read domain")
                  ELSE [Drop(s1, n) EXCEPT !.host = BytesToString(Take(s1, n)),
                                           !.pc = "port"]
    ELSE Return(Write(s, sendReply(repFailure, NilAddr)), "unsupported address type")

ReadPort(s) ==
    IF ~CanRead(s, 2) THEN ReadError(s, "read port")
    ELSE LET port == s.in[1] * 256 + s.in[2]
         IN  [Drop(s, 2) EXCEPT !.port = port,
                                !.target = JoinHostPort(s.host, Itoa(port)),
                                !.pc = "dial"]

OnDialError_GeneralFailure(s) ==
    Return(Write(s, sendReply(repFailure, NilAddr)), "dial")

OnDialError(s) ==
    Return(Write(s, sendReply(repHostUnreach, NilAddr)), "dial")

\* a handler that sends the success reply first and dials afterwards
Dial_RepliesBeforeDialing(s, dialOK, localAddr) ==
    LET s1 == Write(s, sendReply(repSuccess, localAddr))
        s2 == [s1 EXCEPT !.dialCalls = Append(@, <<"tcp", s.target>>)]
    IN  IF ~dialOK THEN OnDialError(s2)
        ELSE [s2 EXCEPT !.remote = "open", !.pc = "relay",
                        !.toRemote = "copying", !.toClient = "copying"]

\* dialFn("tcp", target); on success the reply is sent and both copies start
Dial(s, dialOK, localAddr) ==
    LET s1 == [s EXCEPT !.dialCalls = Append(@, <<"tcp", s.target>>)]
    IN  IF ~dialOK THEN OnDialError(s1)
        ELSE [Write(s1, sendReply(repSuccess, localAddr))
                 EXCEPT !.remote = "open", !.pc = "relay",
                        !.toRemote = "copying", !.toClient = "copying"]

(***************************************************************************)
(* The two copies of the relay.  Each io.Copy reads from one side and      *)
(* writes to the other until a read or a write fails; the handler returns  *)
(* when the first of them has finished.                                    *)
(***************************************************************************)
MaxChunks == 2

\* io.Copy(remote, conn) moves one chunk, or ends
CopyToRemote(s, ev) ==
    IF s.connClosed \/ s.remote = "closed" \/ ev # "data"
    THEN [s EXCEPT !.toRemote = "done"]
    ELSE [s EXCEPT !.up = @ + 1]

\* io.Copy(conn, remote) moves one chunk, or ends
CopyToClient(s, ev) ==
    IF s.connClosed \/ s.remote = "closed" \/ ev # "data"
    THEN [s EXCEPT !.toClient = "done"]
    ELSE [s EXCEPT !.down = @ + 1]

\* <-done, return nil
RelayDone(s) == Return(s, "nil")

(***************************************************************************)
(* What clients send: a greeting, then a request, cut anywhere.            *)
(***************************************************************************)
MaxMethods == 2

MethodBytes == {0, 1, 2}

MethodLists == UNION {[1..n -> MethodBytes] : n \in 0..MaxMethods}

Greetings == {<<v, Len(ms)>> \o ms : v \in {4, 5}, ms \in MethodLists}

DstAddrs ==
    [a1 |-> <<atypIPv4, 127, 0, 0, 1>>,
     a2 |-> <<atypIPv4, 10, 0, 0, 255>>,
     a3 |-> <<atypDomain, 4, 97, 46, 105, 111>>,
     a4 |-> <<atypDomain, 0>>,
     a5 |-> <<atypIPv6, 0, 0, 0, 0, 0, 0, 0, 0, 0, 0, 0, 0, 0, 0, 0, 1>>,
     a6 |-> <<atypIPv6, 0, 0, 0, 0, 0, 0, 0, 0, 0, 0, 255, 255, 1, 2, 3, 4>>,
     a7 |-> <<atypIPv6, 32, 1, 13, 184, 0, 0, 0, 0, 0, 0, 0, 0, 0, 0, 0, 1>>,
     a8 |-> <<atypIPv6, 0, 1, 0, 0, 0, 0, 0, 2, 0, 0, 0, 0, 0, 3, 0, 4>>,
     a9 |-> <<atypIPv6, 0, 1, 0, 0, 0, 2, 0, 3, 0, 4, 0, 5, 0, 6, 0, 7>>,
     a10 |-> <<2>>]

DstPorts == {<<0, 80>>, <<31, 144>>}

Requests ==
    {<<v, cmd, 0>> \o DstAddrs[a] \o p :
        v \in {4, 5}, cmd \in {1, 2, 3}, a \in DOMAIN DstAddrs, p \in DstPorts}

Conversations ==
    Greetings \cup {g \o r : g \in {<<5, 1, 0>>, <<5, 2, 2, 0>>}, r \in Requests}

ClientStreams == UNION {{SubSeq(c, 1, n) : n \in 0..Len(c)} : c \in Conversations}

LocalAddrs ==
    {NilAddr, [kind |-> "unix"], TCPAddr(<<0, 0, 0, 0>>, 0), TCPAddr(<<10, 0, 0, 2>>, 40000),
     TCPAddr(<<0, 0, 0, 0, 0, 0, 0, 0, 0, 0, 0, 0, 0, 0, 0, 1>>, 4000)}

CopyEvents == {"data", "eof", "write error"}

SocksReadAuthHeader ==
    /\ sock.pc = "header"
    /\ sock' = ReadAuthHeader(sock)
    /\ UNCHANGED <<svc, trust, conns, host, run, tun, ships, cache, drv, up, app>>

SocksNegotiateAuth ==
    /\ sock.pc = "methods"
    /\ \E writeOK \in BOOLEAN : sock' = NegotiateAuth(sock, writeOK)
    /\ UNCHANGED <<svc, trust, conns, host, run, tun, ships, cache, drv, up, app>>

SocksReadRequest ==
    /\ sock.pc = "request"
    /\ sock' = ReadRequest(sock)
    /\ UNCHANGED <<svc, trust, conns, host, run, tun, ships, cache, drv, up, app>>

SocksReadAddress ==
    /\ sock.pc = "address"
    /\ sock' = ReadAddress(sock)
    /\ UNCHANGED <<svc, trust, conns, host, run, tun, ships, cache, drv, up, app>>

SocksReadPort ==
    /\ sock.pc = "port"
    /\ sock' = ReadPort(sock)
    /\ UNCHANGED <<svc, trust, conns, host, run, tun, ships, cache, drv, up, app>>

SocksDial ==
    /\ sock.pc = "dial"
    /\ \E dialOK \in BOOLEAN, la \in LocalAddrs : sock' = Dial(sock, dialOK, la)
    /\ UNCHANGED <<svc, trust, conns, host, run, tun, ships, cache, drv, up, app>>

SocksCopyToRemote ==
    /\ sock.toRemote = "copying"
    /\ \E ev \in CopyEvents :
          /\ ev = "data" => sock.up < MaxChunks
          /\ sock' = CopyToRemote(sock, ev)
    /\ UNCHANGED <<svc, trust, conns, host, run, tun, ships, cache, drv, up, app>>

SocksCopyToClient ==
    /\ sock.toClient = "copying"
    /\ \E ev \in CopyEvents :
          /\ ev = "data" => sock.down < MaxChunks
          /\ sock' = CopyToClient(sock, ev)
    /\ UNCHANGED <<svc, trust, conns, host, run, tun, ships, cache, drv, up, app>>

SocksRelayDone ==
    /\ sock.pc = "relay"
    /\ sock.toRemote = "done" \/ sock.toClient = "done"
    /\ sock' = RelayDone(sock)
    /\ UNCHANGED <<svc, trust, conns, host, run, tun, ships, cache, drv, up, app>>

InitSocks ==
    /\ sock \in {[IdleSock EXCEPT !.pc = "header", !.in = in] : in \in ClientStreams}
    /\ svc = IdleSvc
    /\ trust = <<>>
    /\ app = IdleApp
    /\ up = IdleUp
    /\ drv = IdleDrv
    /\ cache = IdleCache
    /\ conns = <<>>
    /\ host = IdleHost
    /\ run = IdleRun
    /\ tun = IdleTun
    /\ ships = IdleShips

NextSocks ==
    \/ SocksReadAuthHeader
    \/ SocksNegotiateAuth
    \/ SocksReadRequest
    \/ SocksReadAddress
    \/ SocksReadPort
    \/ SocksDial
    \/ SocksCopyToRemote
    \/ SocksCopyToClient
    \/ SocksRelayDone

SpecSocks == InitSocks /\ [][NextSocks]_vars

\* a side of the relay has been closed: the blocked Read or Write of a copy
\* returns an error
RelayClosed == sock.connClosed \/ sock.remote = "closed"

\* scheduling of the goroutines: the handler receives from done once a copy
\* has sent on it, and a copy whose connection was closed runs on to its end
SpecSocksRelay ==
    /\ InitSocks
    /\ [][NextSocks]_vars
    /\ WF_vars(SocksRelayDone)
    /\ WF_vars(RelayClosed /\ SocksCopyToRemote)
    /\ WF_vars(RelayClosed /\ SocksCopyToClient)

(***************************************************************************)
(* Properties of the SOCKS5 handler.                                       *)
(***************************************************************************)
MethodSelection(m) == <<socks5Version, m>>

\* the handler has written a reply (after the method selection) whose REP is rep
SentRep(rep) == \E i \in 2..Len(sock.wrote) : sock.wrote[i][2] = rep

NoAuthOffered == \E i \in 1..Len(sock.methods) : sock.methods[i] = 0

\* C8: whenever the handler has read a SOCKS5 client's method list that does
\* not contain 0x00 (the empty list included), the only bytes it has written
\* are {0x05, 0xFF}, it has called dial no times, and the client connection
\* is closed.
C8_NoAcceptableMethod ==
    (sock.methodsRead /\ ~NoAuthOffered) =>
        /\ sock.wrote = <<MethodSelection(255)>>
        /\ sock.dialCalls = <<>>
        /\ sock.connClosed

C8_Witness ==
    /\ sock.methodsRead
    /\ sock.methods = <<>>
    /\ sock.pc = "returned"
    /\ sock.wrote = <<MethodSelection(255)>>

NegotiationSucceeded ==
    /\ sock.methodsRead
    /\ Len(sock.wrote) >= 1
    /\ sock.wrote[1] = MethodSelection(0)

RequestRead == NegotiationSucceeded /\ Len(sock.req) = 4

NotAllowedOutcome ==
    /\ Len(sock.wrote) = 2
    /\ sock.wrote[2] = <<5, 2, 0, 1, 0, 0, 0, 0, 0, 0>>
    /\ sock.dialCalls = <<>>
    /\ sock.connClosed

\* C9 as written: after a successful negotiation, every request whose command
\* byte is not 0x01 gets a reply with REP=0x02, no dial, and a closed
\* connection.
C9_EveryNonConnectRequest ==
    (RequestRead /\ sock.req[2] # 1) => NotAllowedOutcome

\* C9: after a successful negotiation, every request whose version byte is
\* 0x05 and whose command byte is not 0x01 gets a reply with REP=0x02; dial
\* is not called for it and the client connection is closed.
C9_NonConnectRefused ==
    (RequestRead /\ sock.req[1] = 5 /\ sock.req[2] # 1) => NotAllowedOutcome

C9_Witness ==
    /\ RequestRead
    /\ sock.req[1] = 5
    /\ sock.req[2] = 2
    /\ sock.pc = "returned"
    /\ SentRep(2)

(***************************************************************************)
(* The colon form of an IPv6 address, read back: eight groups of one to    *)
(* four hexadecimal digits separated by ":", where one "::" stands for the *)
(* groups that are missing.                                                *)
(***************************************************************************)
HexDigits == "0123456789abcdef"

IsHexGroup(g) ==
    /\ Len(g) \in 1..4
    /\ \A i \in 1..Len(g) : IndexByte(HexDigits, Ch(g, i), 1) # 0

RECURSIVE HexValue(_)
HexValue(g) ==
    IF g = "" THEN 0
    ELSE HexValue(SubSeq(g, 1, Len(g) - 1)) * 16 + IndexByte(HexDigits, Ch(g, Len(g)), 1) - 1

RECURSIVE SplitColons(_)
\* the pieces of s between its colons; none for the empty string
SplitColons(s) ==
    IF s = "" THEN <<>>
    ELSE LET i == IndexByte(s, ":", 1)
         IN  IF i = 0 THEN <<s>>
             ELSE <<SubSeq(s, 1, i - 1)>> \o
                  (IF i = Len(s) THEN <<"">> ELSE SplitColons(SubSeq(s, i + 1, Len(s))))

\* the eight groups that the text h denotes, <<>> when h is not a colon form
ColonFormGroups(h) ==
    LET gaps  == {i \in 1..(Len(h) - 1) : SubSeq(h, i, i + 1) = "::"}
        gap   == CHOOSE i \in gaps : TRUE
        left  == IF gaps = {} THEN SplitColons(h) ELSE SplitColons(SubSeq(h, 1, gap - 1))
        right == IF gaps = {} THEN <<>> ELSE SplitColons(SubSeq(h, gap + 2, Len(h)))
        given == left \o right
        zeros == [i \in 1..(8 - Len(given)) |-> 0]
    IN  IF Cardinality(gaps) > 1 THEN <<>>
        ELSE IF \E i \in DOMAIN given : ~IsHexGroup(given[i]) THEN <<>>
        ELSE IF gaps = {} /\ Len(given) # 8 THEN <<>>
        ELSE IF gaps # {} /\ Len(given) > 7 THEN <<>>
        ELSE [i \in DOMAIN left |-> HexValue(left[i])] \o zeros
                 \o [i \in DOMAIN right |-> HexValue(right[i])]

\* dial was called for a request with a 16-byte address
DialledIPv6 == sock.dialCalls # <<>> /\ sock.req[4] = atypIPv6

\* the host and the target of the call are the colon form of the address, in brackets
DialledColonForm ==
    /\ ColonFormGroups(sock.host) = Groups(sock.addr)
    /\ sock.dialCalls[1] = <<"tcp", "[" \o sock.host \o "]:" \o Itoa(sock.port)>>

\* C29 as stated: for every 16-byte address sent with address type IPv6 in a
\* CONNECT request, IPv4-mapped ones included, the host passed to dial is the
\* address in its colon form, bracketed in host:port
C29_EveryIPv6InColonForm == DialledIPv6 => DialledColonForm

\* C29 amended: the host passed to dial for a 16-byte address is its colon
\* form, bracketed in host:port, unless the address is IPv4-mapped
\* (::ffff:a.b.c.d); then it is the dotted quad a.b.c.d without brackets
C29_IPv6InColonFormUnlessMapped ==
    DialledIPv6 =>
        IF IsIPv4Mapped(sock.addr)
        THEN /\ sock.host = DottedQuad(SubSeq(sock.addr, 13, 16))
             /\ sock.dialCalls[1] = <<"tcp", sock.host \o ":" \o Itoa(sock.port)>>
        ELSE DialledColonForm

\* 2001:db8::1 port 8080 was dialled
C29_Witness ==
    /\ DialledIPv6
    /\ sock.addr = <<32, 1, 13, 184, 0, 0, 0, 0, 0, 0, 0, 0, 0, 0, 0, 1>>
    /\ sock.dialCalls[1] = <<"tcp", "[2001:db8::1]:8080">>

DialFailed == sock.ret = "dial"

\* C10: when dial has failed for a CONNECT request, the handler has sent a
\* reply with REP=0x04 and none with REP=0x00, neither copy of the relay has
\* started or moved data, and the client connection is closed.
C10_DialFailureReported ==
    DialFailed =>
        /\ SentRep(4)
        /\ ~SentRep(0)
        /\ sock.toRemote = "idle" /\ sock.toClient = "idle"
        /\ sock.up = 0 /\ sock.down = 0
        /\ sock.connClosed

C10_Witness ==
    /\ DialFailed
    /\ sock.req[2] = 1
    /\ Len(sock.dialCalls) = 1
    /\ sock.pc = "returned"

\* the handler has read the four bytes of the request
ReadsRequest == Len(sock.req) = 0 /\ Len(sock'.req) = 4

\* the handler calls dialFn
Dials == sock'.dialCalls # sock.dialCalls

\* the handler writes a reply with REP=0x00
RepliesSuccess == ~SentRep(repSuccess) /\ SentRep(repSuccess)'

\* one of the copies moves a chunk
Relays == sock'.up # sock.up \/ sock'.down # sock.down

\* the handler has got past the dial: it relays, or it has returned from the
\* dial or from the relay
PastDial == sock.pc = "relay" \/ (sock.pc = "returned" /\ sock.ret \in {"dial", "nil"})

\* C11: the steps of the handler occur in this order: the request is read
\* only when {0x05, 0x00} is what has been written; dial is called once, after
\* the port has been read, with ("tcp", host:port); the reply with REP=0x00
\* is written only when that dial has succeeded; bytes are relayed in either
\* direction only after that reply; and a handler that got past the dial has
\* called it exactly once.
C11_HandlerStepOrder ==
    [][/\ ReadsRequest => sock.wrote = <<MethodSelection(authNone)>>
       /\ Dials => /\ sock.dialCalls = <<>>
                   /\ sock.target = JoinHostPort(sock.host, Itoa(sock.port))
                   /\ sock.pc = "dial" /\ Len(sock.req) = 4
                   /\ sock'.dialCalls = <<<<"tcp", sock.target>>>>
       /\ RepliesSuccess => /\ Len(sock'.dialCalls) = 1
                            /\ sock'.remote = "open"
                            /\ sock.up = 0 /\ sock.down = 0
                            /\ sock.toRemote = "idle" /\ sock.toClient = "idle"
       /\ Relays => /\ SentRep(repSuccess)
                    /\ Len(sock.wrote) = 2
                    /\ sock.remote = "open"
       /\ PastDial' => Len(sock'.dialCalls) = 1]_vars

\* a CONNECT to 127.0.0.1:80 was dialled once, answered, and relayed both ways
C11_Witness ==
    /\ sock.methods = <<authNone>>
    /\ sock.req = <<socks5Version, cmdConnect, 0, atypIPv4>>
    /\ sock.dialCalls = <<<<"tcp", "127.0.0.1:80">>>>
    /\ sock.wrote = <<MethodSelection(authNone), sendReply(repSuccess, NilAddr)>>
    /\ sock.up > 0 /\ sock.down > 0

\* a copy direction has ended
CopyEnded == sock.toRemote = "done" \/ sock.toClient = "done"

\* the handler has returned from the relay
RelayReturned == sock.pc = "returned" /\ sock.ret = "nil"

\* C12: once relaying has started the handler returns only when a copy
\* direction has ended, and then it does return; when it has returned the
\* client connection and the remote connection are both closed, and from
\* then on the other copy direction ends too, so that neither copy stays
\* blocked.
C12_RelayEndsBothSides ==
    /\ [][(sock.pc = "relay" /\ sock'.pc = "returned")
             => (CopyEnded /\ sock'.ret = "nil")]_vars
    /\ [](RelayReturned => (sock.connClosed /\ sock.remote = "closed"))
    /\ ((sock.pc = "relay" /\ CopyEnded) ~> RelayReturned)
    /\ (RelayReturned ~> (sock.toRemote = "done" /\ sock.toClient = "done"))

\* the handler has returned from a relay that moved data both ways while the
\* copy towards the client is still running
C12_Witness ==
    /\ RelayReturned
    /\ sock.up > 0 /\ sock.down > 0
    /\ sock.toRemote = "done" /\ sock.toClient = "copying"
    /\ sock.connClosed /\ sock.remote = "closed"

(***************************************************************************)
(* The tunnel (internal/tunnel: Run).  Run connects, listens, starts the   *)
(* goroutine that closes the listener when the context is cancelled, and   *)
(* accepts connections, one handler goroutine per connection, until        *)
(* Accept fails.  tun.handlers lists the handlers in the order of their    *)
(* accepts; tun.wg is the WaitGroup's counter.                             *)
(***************************************************************************)
\* connections that arrive in one behaviour
MaxConns == 3

\* return: the deferred ln.Close and client.Close run
RunReturn(t, ret) ==
    [t EXCEPT !.pc = "returned", !.ret = ret,
              !.ln = IF @ = "open" THEN "closed" ELSE @,
              !.client = IF @ = "open" THEN "closed" ELSE @]

\* Run up to the accept loop: ConnectWithOptions, net.Listen, and the start
\* of the goroutine that waits for ctx.Done()
RunStart(t, connectOK, listenOK) ==
    IF ~connectOK THEN RunReturn(t, "ssh connect")
    ELSE IF ~listenOK THEN RunReturn([t EXCEPT !.client = "open"], "listen")
    ELSE [t EXCEPT !.pc = "accept", !.client = "open", !.ln = "open",
                   !.closer = "waiting"]

\* a goroutine that closes the SSH client along with the listener
CloseOnCancel_ClosesClient(t) ==
    [t EXCEPT !.ln = "closed", !.closer = "done", !.client = "closed"]

\* the goroutine of Run: <-ctx.Done() has returned, ln.Close()
CloseOnCancel(t) == [t EXCEPT !.ln = "closed", !.closer = "done"]

\* ln.Accept returned a connection: wg.Add(1) and go HandleConn
Accept(t) ==
    [t EXCEPT !.handlers = Append(@, [state |-> "running", ctx |-> t.ctx, ln |-> t.ln]),
              !.wg = @ + 1]

\* ln.Accept returned an error; errCtx keeps the context of that moment
AcceptError(t) == [t EXCEPT !.pc = "select", !.err = "accept", !.errCtx = t.ctx]

\* a select that takes the default case whatever the context
Select_AlwaysFatal(t) == RunReturn(t, t.err)

\* select { case <-ctx.Done(): ... default: return the error }
Select(t) ==
    IF t.ctx = "cancelled" THEN [t EXCEPT !.pc = "wait"]
    ELSE RunReturn(t, t.err)

\* a Wait that does not look at the counter
WaitGroupDone_Ignored(t) == TRUE

\* wg.Wait() returns when the counter is zero
WaitGroupDone(t) == t.wg = 0

\* after wg.Wait(): logf("tunnel closed"), return nil
Wait(t) == RunReturn(t, "nil")

\* a handler goroutine: HandleConn has returned, the deferred wg.Done()
HandlerReturn(t, i) ==
    [t EXCEPT !.handlers[i].state = "returned", !.wg = @ - 1]

TunStart ==
    /\ tun.pc = "start"
    /\ \E connectOK \in BOOLEAN, listenOK \in BOOLEAN :
          tun' = RunStart(tun, connectOK, listenOK)
    /\ UNCHANGED <<svc, trust, conns, host, run, sock, ships, cache, drv, up, app>>

\* the caller cancels the context
TunCancel ==
    /\ tun.ctx = "live"
    /\ tun' = [tun EXCEPT !.ctx = "cancelled"]
    /\ UNCHANGED <<svc, trust, conns, host, run, sock, ships, cache, drv, up, app>>

TunCloseOnCancel ==
    /\ tun.closer = "waiting"
    /\ tun.ctx = "cancelled"
    /\ tun' = CloseOnCancel(tun)
    /\ UNCHANGED <<svc, trust, conns, host, run, sock, ships, cache, drv, up, app>>

TunAccept ==
    /\ tun.pc = "accept"
    /\ tun.ln = "open"
    /\ Len(tun.handlers) < MaxConns
    /\ tun' = Accept(tun)
    /\ UNCHANGED <<svc, trust, conns, host, run, sock, ships, cache, drv, up, app>>

\* Accept fails: always on a closed listener, and for a reason of its own on
\* an open one
TunAcceptError ==
    /\ tun.pc = "accept"
    /\ tun' = AcceptError(tun)
    /\ UNCHANGED <<svc, trust, conns, host, run, sock, ships, cache, drv, up, app>>

TunSelect ==
    /\ tun.pc = "select"
    /\ tun' = Select(tun)
    /\ UNCHANGED <<svc, trust, conns, host, run, sock, ships, cache, drv, up, app>>

TunWait ==
    /\ tun.pc = "wait"
    /\ WaitGroupDone(tun)
    /\ tun' = Wait(tun)
    /\ UNCHANGED <<svc, trust, conns, host, run, sock, ships, cache, drv, up, app>>

TunHandlerReturn ==
    /\ \E i \in 1..Len(tun.handlers) :
          /\ tun.handlers[i].state = "running"
          /\ tun' = HandlerReturn(tun, i)
    /\ UNCHANGED <<svc, trust, conns, host, run, sock, ships, cache, drv, up, app>>

InitTunnel ==
    /\ tun = [IdleTun EXCEPT !.pc = "start"]
    /\ svc = IdleSvc
    /\ trust = <<>>
    /\ app = IdleApp
    /\ up = IdleUp
    /\ drv = IdleDrv
    /\ cache = IdleCache
    /\ conns = <<>>
    /\ host = IdleHost
    /\ run = IdleRun
    /\ sock = IdleSock
    /\ ships = IdleShips

NextTunnel ==
    \/ TunStart
    \/ TunCancel
    \/ TunCloseOnCancel
    \/ TunAccept
    \/ TunAcceptError
    \/ TunSelect
    \/ TunWait
    \/ TunHandlerReturn

\* the goroutine that closes the listener runs once the context is cancelled
SpecTunnel == InitTunnel /\ [][NextTunnel]_vars /\ WF_vars(TunCloseOnCancel)

(***************************************************************************)
(* Properties of the tunnel.                                               *)
(***************************************************************************)
\* Accept hands a connection to a new handler
Accepts == Len(tun'.handlers) > Len(tun.handlers)

AllHandlersReturned ==
    \A i \in 1..Len(tun.handlers) : tun.handlers[i].state = "returned"

ReturnedNil == tun.pc = "returned" /\ tun.ret = "nil"

\* C13 as written: once the context is cancelled the listener gets closed, no
\* connection is accepted after the cancellation, and Run returns nil only
\* after every handler that was started has returned.
C13_NoAcceptAfterCancel ==
    /\ [][Accepts => tun.ctx = "live"]_vars
    /\ [](ReturnedNil => AllHandlersReturned)
    /\ ((tun.ctx = "cancelled" /\ tun.ln = "open") ~> tun.ln = "closed")

\* C13: once the context is cancelled the listener gets closed and stays
\* closed; no connection is accepted once the listener is closed; and Run
\* returns nil only after the cancellation and after every handler that was
\* started has returned.
C13_NoAcceptAfterClose ==
    /\ [][Accepts => (tun.ln = "open" /\ tun.closer # "done")]_vars
    /\ [][tun.ln = "closed" => tun'.ln = "closed"]_vars
    /\ [](ReturnedNil => (tun.ctx = "cancelled" /\ AllHandlersReturned /\ tun.wg = 0))
    /\ ((tun.ctx = "cancelled" /\ tun.ln = "open") ~> tun.ln = "closed")

\* Run returned nil after three handlers, one of them accepted after the
\* cancellation, had returned
C13_Witness ==
    /\ ReturnedNil
    /\ Len(tun.handlers) = 3
    /\ AllHandlersReturned
    /\ \E i \in 1..Len(tun.handlers) : tun.handlers[i].ctx = "cancelled"
    /\ tun.ln = "closed"

\* Run has returned after an error of Accept
ReturnedAfterAcceptError == tun.pc = "returned" /\ tun.errCtx # ""

\* C34 as stated: an error returned by Accept before the context was
\* cancelled makes Run return that error, and an error returned by Accept
\* after the cancellation is never reported: Run then returns nil
C34_FatalIffBeforeCancel ==
    ReturnedAfterAcceptError =>
        IF tun.errCtx = "live" THEN tun.ret = "accept" ELSE tun.ret = "nil"

\* C34 amended: an error of Accept is returned by Run when the context is
\* still live at the moment Run examines it, and only then; an error that
\* Accept returned after the cancellation, or one that the cancellation
\* followed before Run examined it, is never reported: Run returns nil
C34_FatalIffLiveAtSelect ==
    /\ [][(tun.pc = "select" /\ tun'.pc # "select")
             => IF tun.ctx = "live"
                THEN tun'.pc = "returned" /\ tun'.ret = "accept"
                ELSE tun'.pc = "wait"]_vars
    /\ [](tun.errCtx = "cancelled" => tun.ret \in {"", "nil"})
    /\ [](ReturnedAfterAcceptError =>
             \/ tun.ret = "accept" /\ tun.errCtx = "live"
             \/ tun.ret = "nil" /\ tun.ctx = "cancelled")

\* Accept failed on the open listener of a live context, the context was
\* cancelled before Run looked, and Run returned nil
C34_Witness ==
    /\ ReturnedNil
    /\ tun.errCtx = "live"
    /\ tun.closer = "waiting"
    /\ Len(tun.handlers) > 0

\* the handlers that are serving a connection
Serving(t) == {i \in 1..Len(t.handlers) : t.handlers[i].state = "running"}

\* a handler that was serving has ended in this step
HandlerEnds == Serving(tun) \ Serving(tun') # {}

\* Run returns in this step
RunReturns == tun.pc # "returned" /\ tun'.pc = "returned"

\* C38: cancelling the context does not end a connection that a handler is
\* serving: the cancellation and the closing of the listener leave the
\* handlers and the SSH client as they are, a handler ends in a step of its
\* own and not in a step of Run or of the cancellation, the SSH client that
\* carries the connections stays open while Run has not returned, and when
\* Run returns with the context cancelled every handler has returned
C38_CancelLeavesHandlersServing ==
    /\ [][(tun'.ctx # tun.ctx \/ (tun.closer = "waiting" /\ tun'.closer = "done"))
             => (tun'.handlers = tun.handlers /\ tun'.client = tun.client)]_vars
    /\ [][HandlerEnds
             => (/\ tun'.ctx = tun.ctx /\ tun'.ln = tun.ln /\ tun'.pc = tun.pc
                 /\ tun'.client = tun.client
                 /\ Cardinality(Serving(tun)) = Cardinality(Serving(tun')) + 1)]_vars
    /\ [][(tun.client = "open" /\ tun'.client # "open") => RunReturns]_vars
    /\ [][(RunReturns /\ tun.ctx = "cancelled")
             => (Serving(tun) = {} /\ tun'.ret \in {"nil", "ssh connect", "listen"})]_vars

\* the context is cancelled and the listener closed, Run waits for the
\* handlers, and a handler accepted before the cancellation is still serving
\* its connection over the open SSH client
C38_Witness ==
    /\ tun.pc = "wait"
    /\ tun.ctx = "cancelled" /\ tun.ln = "closed" /\ tun.closer = "done"
    /\ tun.client = "open"
    /\ \E i \in Serving(tun) : tun.handlers[i].ctx = "live"
    /\ \E i \in 1..Len(tun.handlers) : tun.handlers[i].state = "returned"

(***************************************************************************)
(* Remote agent (the bash script of internal/remote, const Script).        *)
(*                                                                         *)
(* host holds the files, packages, services and firewall rules of the      *)
(* target; a file is NoFile or a record of the parts of its content the    *)
(* script writes and reads back.  run holds the last run of the script.    *)
(***************************************************************************)
B(b) == IF b THEN "1" ELSE "0"

NoFile == [exists |-> FALSE]

Exists(f) == f.exists

\* microsocks.env
EnvFile(port, user, pass) ==
    [exists |-> TRUE, PROXY_PORT |-> port, PROXY_USER |-> user, PROXY_PASS |-> pass]

\* http.env
HttpEnvFile(mode, port, user, pass) ==
    [exists |-> TRUE, PROXY_PORT |-> port, PROXY_USER |-> user, PROXY_PASS |-> pass,
     HTTP_MODE |-> mode]

\* a squid configuration: marker is "managed" for the file the script writes
\* (it holds both "managed by beammeup" and "beammeup-proxy"), "legacy" for one
\* holding only "beammeup-proxy", "none" for a foreign one
SquidConf(marker, port) == [exists |-> TRUE, marker |-> marker, port |-> port]

\* an htpasswd file; the hash is represented by the password it was made from
Htpasswd(user, pass) == [exists |-> TRUE, user |-> user, pass |-> pass]

UnitFile(unit) == [exists |-> TRUE, unit |-> unit]

MetaFile(status, notes) == [exists |-> TRUE, status |-> status, notes |-> notes]

Stopped == [active |-> FALSE, listen |-> ""]

Running(port) == [active |-> TRUE, listen |-> port]

SOCKS_SERVICE == "beammeup-microsocks.service"

HTTP_SIDECAR_SERVICE == "beammeup-http-sidecar.service"

\* the default configuration the squid package installs
PackagedSquidConf == SquidConf("none", "3128")

read_env_value(file, key) ==
    IF Exists(file) /\ key \in DOMAIN file THEN file[key] ELSE ""

\* grep -q "managed by beammeup"
GrepManaged(f) == Exists(f) /\ f.marker = "managed"

\* grep -q "beammeup-proxy"
GrepProxy(f) == Exists(f) /\ f.marker \in {"managed", "legacy"}

IsDigits(p) == Len(p) > 0 /\ \A i \in 1..Len(p) : IndexByte("0123456789", Ch(p, i), 1) # 0

RECURSIVE Atoi(_)
Atoi(p) ==
    IF p = "" THEN 0
    ELSE Atoi(SubSeq(p, 1, Len(p) - 1)) * 10 + (IndexByte("0123456789", Ch(p, Len(p)), 1) - 1)

is_valid_port(port) == IsDigits(port) /\ Atoi(port) >= 1 /\ Atoi(port) <= 65535

\* the ports with a listening socket
Listening(h) == {h.socks.listen, h.squid.listen, h.sidecar.listen} \ {""}

port_in_use(h, port) == port \in Listening(h)

\* TRUE when ensure_port_available returns, FALSE when it dies
ensure_port_available(h, desired, current) ==
    (current # "" /\ desired = current) \/ ~port_in_use(h, desired)

\* systemctl starts a service on port: it becomes active unless the start
\* fails or another socket already listens there
Started(h, own, port, fault) ==
    IF fault = "start" \/ port \in (Listening(h) \ {own.listen}) THEN Stopped
    ELSE Running(port)

load_socks_state(h) ==
    [EXISTS |-> B(Exists(h.socksEnv) \/ Exists(h.socksUnit)),
     ACTIVE |-> IF Exists(h.socksUnit) THEN B(h.socks.active) ELSE "0",
     PORT   |-> read_env_value(h.socksEnv, "PROXY_PORT"),
     USER   |-> read_env_value(h.socksEnv, "PROXY_USER"),
     PASS   |-> read_env_value(h.socksEnv, "PROXY_PASS")]

load_http_state(h) ==
    LET port0 == read_env_value(h.httpEnv, "PROXY_PORT")
        user0 == read_env_value(h.httpEnv, "PROXY_USER")
        pass0 == read_env_value(h.httpEnv, "PROXY_PASS")
        mode0 == IF read_env_value(h.httpEnv, "HTTP_MODE") = "sidecar" THEN "sidecar" ELSE ""
    IN  IF mode0 = "sidecar" \/ Exists(h.sidecarUnit) \/ Exists(h.sidecarConf)
        THEN [EXISTS  |-> "1",
              ACTIVE  |-> IF Exists(h.sidecarUnit) THEN B(h.sidecar.active) ELSE "0",
              PORT    |-> IF port0 = "" /\ Exists(h.sidecarConf)
                          THEN h.sidecarConf.port ELSE port0,
              USER    |-> IF user0 = "" /\ Exists(h.sidecarHtpasswd)
                          THEN h.sidecarHtpasswd.user ELSE user0,
              PASS    |-> pass0,
              MODE    |-> "sidecar",
              MANAGED |-> "0",
              LEGACY  |-> "0"]
        ELSE LET managed == GrepManaged(h.squidConf)
                 legacy  == ~managed /\ GrepProxy(h.squidConf)
                 exists  == Exists(h.httpEnv) \/ managed \/ legacy
             IN  [EXISTS  |-> B(exists),
                  ACTIVE  |-> IF "squid" \in h.pkgs /\ exists
                              THEN B(h.squid.active) ELSE "0",
                  PORT    |-> IF port0 = "" /\ Exists(h.squidConf)
                              THEN h.squidConf.port ELSE port0,
                  USER    |-> IF user0 = "" /\ Exists(h.httpHtpasswd)
                              THEN h.httpHtpasswd.user ELSE user0,
                  PASS    |-> pass0,
                  MODE    |-> IF managed THEN "managed" ELSE IF legacy THEN "legacy" ELSE "",
                  MANAGED |-> B(managed),
                  LEGACY  |-> B(legacy)]

write_hangar_metadata(h, status, notes) == [h EXCEPT !.meta = MetaFile(status, notes)]

\* a reconciliation that looks at the SOCKS service only when both exist
HangarStatus_FirstServiceOnly(S, H, metaExists) ==
    IF S.EXISTS # "1" /\ H.EXISTS # "1"
    THEN IF metaExists THEN "drift" ELSE "missing"
    ELSE IF S.EXISTS = "1" THEN (IF S.ACTIVE # "1" THEN "drift" ELSE "online")
    ELSE IF H.ACTIVE # "1" THEN "drift"
    ELSE "online"

\* HANGAR_STATUS from the loaded state
HangarStatus(S, H, metaExists) ==
    IF S.EXISTS # "1" /\ H.EXISTS # "1"
    THEN IF metaExists THEN "drift" ELSE "missing"
    ELSE IF S.EXISTS = "1" /\ S.ACTIVE # "1" THEN "drift"
    ELSE IF H.EXISTS = "1" /\ H.ACTIVE # "1" THEN "drift"
    ELSE "online"

reconcile_hangar_status(h, S, H) ==
    LET status == HangarStatus(S, H, Exists(h.meta))
        any    == S.EXISTS = "1" \/ H.EXISTS = "1"
    IN  [h      |-> IF any /\ ~Exists(h.meta)
                    THEN write_hangar_metadata(h, status,
                                               "reconstructed metadata from managed config")
                    ELSE h,
         STATUS |-> status,
         METADATA_EXISTS |-> B(any \/ Exists(h.meta))]

\* ${a:-b}
Default(a, b) == IF a # "" THEN a ELSE b

\* generate_secret reads /dev/urandom: the n-th secret drawn on the target
\* differs from every other one
generate_secret(n) == "x" \o Itoa(n)

\* the user name and the password of an apply run: the current ones, or newly
\* generated ones where there is none or rotation is requested
Credentials(h, prefix, curUser, curPass, rotate) ==
    LET genUser == curUser = "" \/ rotate
        genPass == curPass = "" \/ rotate
        nUser   == IF genUser THEN 1 ELSE 0
        nPass   == IF genPass THEN 1 ELSE 0
    IN  [user |-> IF genUser THEN prefix \o generate_secret(h.drawn + 1) ELSE curUser,
         pass |-> IF genPass THEN generate_secret(h.drawn + nUser + 1) ELSE curPass,
         h    |-> [h EXCEPT !.drawn = @ + nUser + nPass]]

\* what get_public_ip prints
PublicIP == "203.0.113.7"

\* the end of a run: the host it leaves, its exit status, the BM_ lines it
\* printed, and the message of die ("" if it did not die)
Done(h, kv) == [h |-> h, exit |-> 0, kv |-> kv, die |-> ""]

Die(h, msg) == [h |-> h, exit |-> 1, kv |-> EmptyKV, die |-> msg]

\* TRUE when ensure_requirements returns
ensure_requirements(h) == h.supported

\* ensure_packages: nothing to do when all are installed; else apt-get installs
\* the missing ones; a newly installed squid brings its default configuration
\* (an existing file is kept) and is started
ensure_packages(h, wanted, fault) ==
    LET missing == wanted \ h.pkgs
    IN  IF missing = {} THEN [h |-> h, ok |-> TRUE]
        ELSE IF fault = "apt" THEN [h |-> h, ok |-> FALSE]
        ELSE LET h1 == [h EXCEPT !.pkgs = @ \cup missing]
             IN  IF "squid" \notin missing THEN [h |-> h1, ok |-> TRUE]
                 ELSE LET conf == IF Exists(h.squidConf) THEN h.squidConf
                                  ELSE PackagedSquidConf
                          h2   == [h1 EXCEPT !.squidConf = conf]
                      IN  [h  |-> [h2 EXCEPT !.squid = Started(h2, h2.squid, conf.port, "none")],
                           ok |-> TRUE]

apply_firewall_rule(h, in, port) ==
    IF in.NO_FIREWALL_CHANGE
    THEN [h |-> h, note |-> "Skipped firewall changes by request."]
    ELSE IF h.ufw
    THEN [h |-> [h EXCEPT !.fwRules = @ \cup {port}],
          note |-> "Opened TCP " \o port \o " via UFW."]
    ELSE [h |-> h,
          note |-> "Firewall not modified. Open TCP " \o port \o " manually if blocked."]

cleanup_firewall_rule(h, port) ==
    IF port # "" /\ is_valid_port(port) /\ h.ufw
    THEN [h EXCEPT !.fwRules = @ \ {port}]
    ELSE h

\* a print_inventory that refreshes the metadata file whether or not it exists
print_inventory_AlwaysRefreshes(h) ==
    LET S  == load_socks_state(h)
        H  == load_http_state(h)
        r  == reconcile_hangar_status(h, S, H)
        h1 == write_hangar_metadata(r.h, r.STATUS, "inventory refresh")
    IN  Done(h1,
             [BM_PUBLIC_IP |-> PublicIP,
              BM_SOCKS_EXISTS |-> S.EXISTS, BM_SOCKS_ACTIVE |-> S.ACTIVE,
              BM_SOCKS_PORT |-> S.PORT, BM_SOCKS_USER |-> S.USER,
              BM_SOCKS_PASS |-> S.PASS, BM_SOCKS_MODE |-> "managed",
              BM_HTTP_EXISTS |-> H.EXISTS, BM_HTTP_ACTIVE |-> H.ACTIVE,
              BM_HTTP_MODE |-> H.MODE, BM_HTTP_MANAGED |-> H.MANAGED,
              BM_HTTP_LEGACY |-> H.LEGACY, BM_HTTP_PORT |-> H.PORT,
              BM_HTTP_USER |-> H.USER, BM_HTTP_PASS |-> H.PASS,
              BM_HANGAR_STATUS |-> r.STATUS,
              BM_METADATA_EXISTS |-> r.METADATA_EXISTS])

print_inventory(h) ==
    LET S  == load_socks_state(h)
        H  == load_http_state(h)
        r  == reconcile_hangar_status(h, S, H)
        h1 == IF r.METADATA_EXISTS = "1"
              THEN write_hangar_metadata(r.h, r.STATUS, "inventory refresh")
              ELSE r.h
    IN  Done(h1,
             [BM_PUBLIC_IP |-> PublicIP,
              BM_SOCKS_EXISTS |-> S.EXISTS, BM_SOCKS_ACTIVE |-> S.ACTIVE,
              BM_SOCKS_PORT |-> S.PORT, BM_SOCKS_USER |-> S.USER,
              BM_SOCKS_PASS |-> S.PASS, BM_SOCKS_MODE |-> "managed",
              BM_HTTP_EXISTS |-> H.EXISTS, BM_HTTP_ACTIVE |-> H.ACTIVE,
              BM_HTTP_MODE |-> H.MODE, BM_HTTP_MANAGED |-> H.MANAGED,
              BM_HTTP_LEGACY |-> H.LEGACY, BM_HTTP_PORT |-> H.PORT,
              BM_HTTP_USER |-> H.USER, BM_HTTP_PASS |-> H.PASS,
              BM_HANGAR_STATUS |-> r.STATUS,
              BM_METADATA_EXISTS |-> r.METADATA_EXISTS])

emit_result(protocol, port, user, pass, httpMode, action, firewallNote, note) ==
    [BM_RESULT_PROTOCOL |-> protocol, BM_RESULT_HOST |-> PublicIP,
     BM_RESULT_PORT |-> port, BM_RESULT_USER |-> user, BM_RESULT_PASS |-> pass,
     BM_RESULT_HTTP_MODE |-> httpMode, BM_RESULT_ACTION |-> action,
     BM_RESULT_FIREWALL_NOTE |-> firewallNote, BM_RESULT_NOTE |-> note]

UnmanagedConf_Ignored(h) == FALSE

\* the squid configuration exists and carries neither marker
UnmanagedConf(h) ==
    Exists(h.squidConf) /\ ~GrepManaged(h.squidConf) /\ ~GrepProxy(h.squidConf)

ConflictMessage(tail) ==
    "Existing non-beammeup Squid config detected at /etc/squid/squid.conf. " \o tail

run_preflight(h, in) ==
    IF ~ensure_requirements(h) THEN Die(h, "Unsupported distro")
    ELSE LET S == load_socks_state(h)
             H == load_http_state(h)
             socks   == in.PROTOCOL = "socks5"
             current == IF socks THEN S.PORT ELSE H.PORT
             chosen  == Default(in.PROXY_PORT,
                                IF socks THEN Default(S.PORT, "1080")
                                ELSE Default(H.PORT, "18181"))
             mode0   == Default(in.HTTP_MODE_REQUEST, "auto")
             mode    == IF mode0 = "auto" /\ H.MODE = "sidecar" THEN "sidecar" ELSE mode0
         IN  IF ~socks /\ mode # "sidecar" /\ UnmanagedConf(h)
             THEN Die(h, ConflictMessage("Use --http-mode sidecar or choose SOCKS5."))
             ELSE IF ~is_valid_port(chosen)
             THEN Die(h, "Invalid proxy port: " \o chosen)
             ELSE IF ~ensure_port_available(h, chosen, current)
             THEN Die(h, "Port " \o chosen \o " is already in use.")
             ELSE Done(h, [BM_PREFLIGHT |-> "OK", BM_PREFLIGHT_PROTOCOL |-> in.PROTOCOL,
                           BM_PREFLIGHT_PORT |-> chosen])

\* the tail of both apply paths: reload the state, reconcile, rewrite the
\* metadata, print the result
FinishApply(h, protocol, port, user, pass, existed, firewallNote, note, notes) ==
    LET S == load_socks_state(h)
        H == load_http_state(h)
        r == reconcile_hangar_status(h, S, H)
    IN  Done(write_hangar_metadata(r.h, r.STATUS, notes),
             emit_result(protocol, port, user, pass, H.MODE,
                         IF existed = "1" THEN "updated" ELSE "created",
                         firewallNote, note))

apply_socks(h, in, env) ==
    IF ~ensure_requirements(h) THEN Die(h, "Unsupported distro")
    ELSE LET p == ensure_packages(h, {"microsocks", "curl"}, env.fault)
         IN
         IF ~p.ok THEN Die(p.h, "apt-get update failed.")
         ELSE IF ~p.h.user /\ env.fault = "useradd" THEN Die(p.h, "")
         ELSE
         LET h1 == [p.h EXCEPT !.user = TRUE]
             S  == load_socks_state(h1)
             desired == Default(in.PROXY_PORT, Default(S.PORT, "1080"))
             rotate  == in.ROTATE_CREDENTIALS
             c       == Credentials(h1, "beam", S.USER, S.PASS, rotate)
             user    == c.user
             pass    == c.pass
         IN
         IF ~is_valid_port(desired) THEN Die(h1, "Invalid proxy port: " \o desired)
         ELSE IF ~ensure_port_available(h1, desired, S.PORT)
         THEN Die(h1, "Port " \o desired \o " is already in use.")
         ELSE
         LET h2 == [c.h EXCEPT !.socksEnv = EnvFile(desired, user, pass),
                              !.socksUnit = UnitFile(SOCKS_SERVICE)]
             \* systemctl enable --now leaves a running service as it is
             h3 == IF h2.socks.active THEN h2
                   ELSE [h2 EXCEPT !.socks = Started(h2, h2.socks, desired, env.fault)]
         IN
         IF ~h3.socks.active THEN Die(h3, "SOCKS5 service failed to start.")
         ELSE LET f == apply_firewall_rule(h3, in, desired)
              IN  FinishApply(f.h, "SOCKS5", desired, user, pass, S.EXISTS, f.note,
                              IF rotate THEN "Credentials rotated." ELSE "",
                              "updated socks5")

apply_http_managed(h, in, env, desired, user, pass, existed, note) ==
    LET h1 == [h EXCEPT !.httpEnv = HttpEnvFile("managed", desired, user, pass)]
    IN
    IF env.fault = "htpasswd" THEN Die(h1, "")
    ELSE
    LET h2 == [h1 EXCEPT !.httpHtpasswd = Htpasswd(user, pass)]
        h3 == IF Exists(h2.squidConf) /\ ~Exists(h2.squidBackup)
              THEN [h2 EXCEPT !.squidBackup = h2.squidConf]
              ELSE h2
        h4 == [h3 EXCEPT !.squidConf = SquidConf("managed", desired)]
    IN
    IF env.fault = "parse" THEN Die(h4, "")
    ELSE
    \* systemctl enable --now squid; systemctl restart squid
    LET h5 == [h4 EXCEPT !.squid = Started(h4, h4.squid, desired, env.fault)]
    IN
    IF ~h5.squid.active THEN Die(h5, "HTTP proxy (Squid) failed to start.")
    ELSE LET f == apply_firewall_rule(h5, in, desired)
         IN  FinishApply(f.h, "HTTP", desired, user, pass, existed, f.note, note,
                         "updated http managed")

apply_http_sidecar(h, in, env, desired, user, pass, existed, note) ==
    LET h1 == [h EXCEPT !.httpEnv = HttpEnvFile("sidecar", desired, user, pass)]
    IN
    IF env.fault = "htpasswd" THEN Die(h1, "")
    ELSE
    LET h2 == [h1 EXCEPT !.sidecarHtpasswd = Htpasswd(user, pass),
                         !.sidecarConf = SquidConf("sidecar", desired),
                         !.sidecarUnit = UnitFile(HTTP_SIDECAR_SERVICE)]
    IN
    IF env.fault = "parse" THEN Die(h2, "")
    ELSE
    \* systemctl enable --now leaves a running service as it is
    LET h3 == IF h2.sidecar.active THEN h2
              ELSE [h2 EXCEPT !.sidecar = Started(h2, h2.sidecar, desired, env.fault)]
    IN
    IF ~h3.sidecar.active THEN Die(h3, "HTTP sidecar service failed to start.")
    ELSE LET f == apply_firewall_rule(h3, in, desired)
         IN  FinishApply(f.h, "HTTP", desired, user, pass, existed, f.note, note,
                         "updated http sidecar")

apply_http(h, in, env) ==
    IF ~ensure_requirements(h) THEN Die(h, "Unsupported distro")
    ELSE LET p == ensure_packages(h, {"squid", "apache2-utils", "curl"}, env.fault)
         IN
         IF ~p.ok THEN Die(p.h, "apt-get update failed.")
         ELSE
         LET h1 == p.h
             H  == load_http_state(h1)
             unmanaged_conf == UnmanagedConf(h1)
             mode0 == Default(in.HTTP_MODE_REQUEST, "auto")
             mode  == IF mode0 # "auto" THEN mode0
                      ELSE IF H.MODE = "sidecar" THEN "sidecar"
                      ELSE "managed"
             current == IF \/ (mode = "managed" /\ H.MODE # "sidecar")
                           \/ (mode = "sidecar" /\ H.MODE = "sidecar")
                        THEN H.PORT ELSE ""
             desired == Default(in.PROXY_PORT, Default(H.PORT, "18181"))
             rotate  == in.ROTATE_CREDENTIALS
             c       == Credentials(h1, "beamhttp", H.USER, H.PASS, rotate)
             user    == c.user
             pass    == c.pass
             note    == IF H.PASS = "" \/ rotate
                        THEN IF H.LEGACY = "1" /\ ~rotate
                             THEN "Legacy HTTP setup detected. Password regenerated because existing password cannot be recovered."
                             ELSE IF rotate THEN "Credentials rotated." ELSE ""
                        ELSE ""
         IN
         IF mode0 \notin {"auto", "managed", "sidecar"}
         THEN Die(h1, "Invalid --http-mode value: " \o mode0 \o " (use auto or sidecar).")
         ELSE IF mode = "managed" /\ unmanaged_conf
         THEN Die(h1, ConflictMessage("Refusing to overwrite."))
         ELSE IF ~is_valid_port(desired) THEN Die(h1, "Invalid proxy port: " \o desired)
         ELSE IF ~ensure_port_available(h1, desired, current)
         THEN Die(h1, "Port " \o desired \o " is already in use.")
         ELSE IF mode = "sidecar"
         THEN apply_http_sidecar(c.h, in, env, desired, user, pass, H.EXISTS, note)
         ELSE apply_http_managed(c.h, in, env, desired, user, pass, H.EXISTS, note)

show_setup(h, in) ==
    IF ~ensure_requirements(h) THEN Die(h, "Unsupported distro")
    ELSE LET S == load_socks_state(h)
             H == load_http_state(h)
         IN  IF in.PROTOCOL = "socks5"
             THEN IF S.EXISTS # "1" THEN Die(h, "SOCKS5 setup not found.")
                  ELSE Done(h, emit_result("SOCKS5", S.PORT, S.USER, S.PASS, H.MODE,
                                           "show", "", ""))
             ELSE IF H.EXISTS # "1" THEN Die(h, "HTTP setup not found.")
                  ELSE Done(h, emit_result("HTTP", H.PORT, H.USER, H.PASS, H.MODE, "show", "",
                                IF H.PASS = ""
                                THEN "Password is not retrievable from legacy setup. Use rotate action to issue a new password."
                                ELSE ""))

\* the SOCKS5 part of destroy
DestroySocks(h, S) ==
    LET h1 == IF Exists(h.socksUnit) THEN [h EXCEPT !.socks = Stopped] ELSE h
        h2 == cleanup_firewall_rule(h1, S.PORT)
    IN  [h2 EXCEPT !.socksEnv = NoFile, !.socksUnit = NoFile]

\* the HTTP part of destroy
DestroyHttp(h, H, env) ==
    LET h1 == cleanup_firewall_rule(h, H.PORT)
        h2 == IF H.MODE = "sidecar" \/ Exists(h1.sidecarUnit) \/ Exists(h1.sidecarConf)
              THEN [h1 EXCEPT !.sidecar = IF Exists(h1.sidecarUnit) THEN Stopped ELSE @,
                              !.sidecarUnit = NoFile, !.sidecarConf = NoFile,
                              !.sidecarHtpasswd = NoFile]
              ELSE LET defined == "squid" \in h1.pkgs
                       a == [h1 EXCEPT !.squid = IF defined THEN Stopped ELSE @,
                                       !.httpHtpasswd = NoFile]
                   IN  IF Exists(a.squidBackup)
                       THEN LET b == [a EXCEPT !.squidConf = a.squidBackup]
                            IN  IF defined
                                THEN [b EXCEPT !.squid =
                                         Started(b, b.squid, b.squidConf.port, env.fault)]
                                ELSE b
                       ELSE IF GrepManaged(a.squidConf) \/ GrepProxy(a.squidConf)
                       THEN [a EXCEPT !.squidConf = NoFile]
                       ELSE a
    IN  [h2 EXCEPT !.httpEnv = NoFile]

DestroyNote(S, H, h) ==
    JoinWith((IF S.EXISTS = "1" THEN <<"SOCKS5 removed">> ELSE <<>>)
             \o (IF H.EXISTS # "1" THEN <<>>
                 ELSE (IF H.MODE = "sidecar" \/ Exists(h.sidecarUnit) \/ Exists(h.sidecarConf)
                       THEN <<"HTTP sidecar removed">>
                       ELSE IF Exists(h.squidBackup) THEN <<"restored squid backup">>
                       ELSE IF GrepManaged(h.squidConf) \/ GrepProxy(h.squidConf)
                       THEN <<"removed beammeup squid config">>
                       ELSE <<>>)
                      \o <<"HTTP removed">>), " ")

destroy_hangar(h, env) ==
    IF ~ensure_requirements(h) THEN Die(h, "Unsupported distro")
    ELSE LET S  == load_socks_state(h)
             H  == load_http_state(h)
             h1 == IF S.EXISTS = "1" THEN DestroySocks(h, S) ELSE h
             h2 == IF H.EXISTS = "1" THEN DestroyHttp(h1, H, env) ELSE h1
             h3 == [h2 EXCEPT !.meta = NoFile]
         IN  IF S.EXISTS = "1" \/ H.EXISTS = "1"
             THEN Done(h3, emit_result("DESTROY", PublicIP, "", "", H.MODE, "destroyed", "",
                                       DestroyNote(S, H, h)))
             ELSE Done(h3, emit_result("DESTROY", PublicIP, "", "", H.MODE, "destroy-noop", "",
                                       "No beammeup configuration detected."))

\* the case "$MODE" at the end of the script
Script(h, in, env) ==
    IF in.MODE = "inventory" THEN print_inventory(h)
    ELSE IF in.MODE = "destroy" THEN destroy_hangar(h, env)
    ELSE IF in.MODE \in {"preflight", "show", "apply"}
    THEN IF in.PROTOCOL \notin {"http", "socks5"}
         THEN Die(h, "--protocol is required for " \o in.MODE \o " mode.")
         ELSE IF in.MODE = "preflight" THEN run_preflight(h, in)
         ELSE IF in.MODE = "show" THEN show_setup(h, in)
         ELSE IF in.PROTOCOL = "socks5" THEN apply_socks(h, in, env)
         ELSE apply_http(h, in, env)
    ELSE Die(h, "Unknown mode: " \o in.MODE)

(***************************************************************************)
(* Runs of the agent.  Each run is one action: the script runs from its    *)
(* first line to its exit against the host as the previous run left it.    *)
(***************************************************************************)
MaxRuns == 2

InputPorts == {"", "8080"}

HttpModeRequests == {"", "managed", "sidecar"}

PreflightInputs ==
    {AgentInput("preflight", "socks5", "", p, FALSE, FALSE) : p \in InputPorts}
    \cup {AgentInput("preflight", "http", m, "", FALSE, FALSE) : m \in HttpModeRequests}
    \cup {AgentInput("preflight", "http", "", "8080", FALSE, FALSE),
          AgentInput("preflight", "http", "", "70000", FALSE, FALSE)}

ShowInputs == {AgentInput("show", p, "", "", FALSE, FALSE) : p \in {"socks5", "http"}}

ApplyInputs ==
    {AgentInput("apply", "socks5", "", p, FALSE, FALSE) : p \in InputPorts}
    \cup {AgentInput("apply", "http", m, p, FALSE, FALSE) :
              m \in HttpModeRequests, p \in InputPorts}
    \cup {AgentInput("apply", "socks5", "", "", FALSE, TRUE),
          AgentInput("apply", "http", "", "", FALSE, TRUE),
          AgentInput("apply", "http", "managed", "9090", FALSE, FALSE),
          AgentInput("apply", "socks5", "", "", TRUE, FALSE),
          AgentInput("apply", "socks5", "", "70000", FALSE, FALSE),
          AgentInput("apply", "http", "bogus", "", FALSE, FALSE)}

DestroyInput == AgentInput("destroy", "", "", "", FALSE, FALSE)

RejectedInputs ==
    {AgentInput("status", "", "", "", FALSE, FALSE),
     AgentInput("apply", "", "", "", FALSE, FALSE)}

\* what a run cannot control: which command of the run fails
Environment(fault) == [fault |-> fault]

Calm == Environment("none")

\* the commands that can fail in an apply run of each protocol
ApplyFaults(protocol) ==
    IF protocol = "socks5" THEN {"apt", "useradd", "start"}
    ELSE {"apt", "htpasswd", "parse", "start"}

\* apply runs: every input with no failing command, and the inputs without
\* --proxy-port and without rotation with each failing command
ApplyRuns ==
    {<<in, Calm>> : in \in ApplyInputs}
    \cup UNION {{<<in, Environment(f)>> : f \in ApplyFaults(in.PROTOCOL)} :
                   in \in {i \in ApplyInputs :
                              /\ i.PROTOCOL \in {"socks5", "http"}
                              /\ i.PROXY_PORT = ""
                              /\ i.HTTP_MODE_REQUEST # "bogus"
                              /\ ~i.ROTATE_CREDENTIALS
                              /\ ~i.NO_FIREWALL_CHANGE}}

DestroyEnvironments == {Environment(f) : f \in {"none", "start"}}

\* the record of a run
RunRecord(in, env, r) ==
    [n |-> run.n + 1, in |-> in, fault |-> env.fault,
     exit |-> r.exit, kv |-> r.kv, die |-> r.die,
     repeat |-> (run.n > 0 /\ run.in = in /\ run.exit = 0),
     metaBefore |-> Exists(host.meta)]

RunScript(in, env) ==
    /\ run.n < MaxRuns
    /\ LET r == Script(host, in, env)
       IN  /\ host' = r.h
           /\ run' = RunRecord(in, env, r)
    /\ UNCHANGED <<svc, trust, conns, sock, tun, ships, cache, drv, up, app>>

RunInventory == RunScript(AgentInput("inventory", "", "", "", FALSE, FALSE), Calm)

RunPreflight == \E in \in PreflightInputs : RunScript(in, Calm)

RunShow == \E in \in ShowInputs : RunScript(in, Calm)

RunApply == \E r \in ApplyRuns : RunScript(r[1], r[2])

RunDestroy == \E env \in DestroyEnvironments : RunScript(DestroyInput, env)

RunRejected == \E in \in RejectedInputs : RunScript(in, Calm)

\* targets the agent has never run on: never used; not supported; squid
\* installed by the administrator with its packaged configuration; a legacy
\* beammeup HTTP proxy on the system squid
UnsupportedHost == [IdleHost EXCEPT !.supported = FALSE]

ForeignSquidHost ==
    [IdleHost EXCEPT !.pkgs = {"squid", "curl"}, !.squidConf = PackagedSquidConf,
                     !.squid = Running("3128")]

LegacyHost ==
    [IdleHost EXCEPT !.pkgs = {"squid", "apache2-utils", "curl"},
                     !.squidConf = SquidConf("legacy", "3128"),
                     !.httpHtpasswd = Htpasswd("beamlegacy", "unrecoverable"),
                     !.squid = Running("3128")]

UntouchedHosts ==
    {IdleHost, [IdleHost EXCEPT !.ufw = TRUE], UnsupportedHost, ForeignSquidHost, LegacyHost}

\* the targets that one apply or destroy run leaves
RunOn(hosts) ==
    {Script(h, r[1], r[2]).h : h \in hosts, r \in ApplyRuns}
    \cup {Script(h, DestroyInput, env).h : h \in hosts, env \in DestroyEnvironments}

\* a target whose services and configuration were removed by hand after an
\* apply: only the metadata file is left
StrippedHost == [IdleHost EXCEPT !.meta = MetaFile("online", "updated socks5")]

\* targets the agent never ran on, targets it ran on once, and the stripped one
InitialHosts == UntouchedHosts \cup RunOn(UntouchedHosts) \cup {StrippedHost}

InitAgent ==
    /\ host \in InitialHosts
    /\ run = IdleRun
    /\ svc = IdleSvc
    /\ trust = <<>>
    /\ app = IdleApp
    /\ up = IdleUp
    /\ drv = IdleDrv
    /\ cache = IdleCache
    /\ conns = <<>>
    /\ sock = IdleSock
    /\ tun = IdleTun
    /\ ships = IdleShips

NextAgent ==
    \/ RunInventory
    \/ RunPreflight
    \/ RunShow
    \/ RunApply
    \/ RunDestroy
    \/ RunRejected

SpecAgent == InitAgent /\ [][NextAgent]_vars

(***************************************************************************)
(* Properties of the remote agent.                                         *)
(***************************************************************************)
\* /etc/squid/squid.conf exists and holds neither "managed by beammeup" nor
\* "beammeup-proxy"
ForeignConf(h) == h.squidConf.exists /\ h.squidConf.marker = "none"

ResultAction == Get(run.kv, "BM_RESULT_ACTION")

\* C4: no run of the agent, in any mode and whatever command fails in it,
\* changes or removes a squid.conf that carries no beammeup marker.
C4_ForeignConfUntouched ==
    [][ForeignConf(host) => host'.squidConf = host.squidConf]_vars

C4_Witness ==
    /\ ForeignConf(host)
    /\ run.in.MODE = "apply" /\ run.in.PROTOCOL = "http"
    /\ run.in.HTTP_MODE_REQUEST = "managed"
    /\ run.die = ConflictMessage("Refusing to overwrite.")

\* C5: a destroy run that follows a completed destroy run reports
\* action=destroy-noop.
C5_SecondDestroyIsNoop ==
    (run.in.MODE = "destroy" /\ run.repeat /\ run.exit = 0)
        => ResultAction = "destroy-noop"

\* the environment files and the service unit files
EnvAndUnitFiles(h) == <<h.socksEnv, h.httpEnv, h.socksUnit, h.sidecarUnit>>

\* C6: an apply run without rotation that follows a completed apply run with
\* the same inputs, and in which no command fails, reports action=updated and
\* leaves the environment files and the unit files as they were.
C6_ReapplyChangesNothing ==
    [][(/\ run'.n = run.n + 1
        /\ run'.in.MODE = "apply" /\ run'.repeat
        /\ ~run'.in.ROTATE_CREDENTIALS
        /\ run'.fault = "none")
       => /\ run'.exit = 0
          /\ Get(run'.kv, "BM_RESULT_ACTION") = "updated"
          /\ EnvAndUnitFiles(host') = EnvAndUnitFiles(host)]_vars

\* an inventory run has ended with its report
InventoryDone == run'.n = run.n + 1 /\ run'.in.MODE = "inventory" /\ run'.exit = 0

\* the services the report says exist, and those among them it says are active
ReportedServices(kv) == {p \in {"SOCKS", "HTTP"} : Get(kv, "BM_" \o p \o "_EXISTS") = "1"}

ReportedActive(kv) ==
    {p \in ReportedServices(kv) : Get(kv, "BM_" \o p \o "_ACTIVE") = "1"}

\* C16: the status an inventory run reports is missing when no service exists
\* and the metadata file was absent, drift when no service exists and the
\* metadata file was present, online when every service that exists is active,
\* and drift when a service that exists is not active.
C16_ReconciledStatus ==
    [][InventoryDone =>
          LET kv     == run'.kv
              status == Get(kv, "BM_HANGAR_STATUS")
          IN  /\ (ReportedServices(kv) = {} /\ ~Exists(host.meta)) => status = "missing"
              /\ (ReportedServices(kv) = {} /\ Exists(host.meta)) => status = "drift"
              /\ (ReportedServices(kv) # {} /\ ReportedActive(kv) = ReportedServices(kv))
                    => status = "online"
              /\ ReportedActive(kv) # ReportedServices(kv) => status = "drift"]_vars

\* an inventory found both services, SOCKS active and HTTP not, and said drift
C16_Witness ==
    /\ run.in.MODE = "inventory" /\ run.exit = 0
    /\ ReportedServices(run.kv) = {"SOCKS", "HTTP"}
    /\ ReportedActive(run.kv) = {"SOCKS"}
    /\ Get(run.kv, "BM_HANGAR_STATUS") = "drift"

\* the last run was a preflight that reported BM_PREFLIGHT=OK
PreflightOK ==
    /\ run.in.MODE = "preflight"
    /\ run.exit = 0
    /\ Get(run.kv, "BM_PREFLIGHT") = "OK"

\* this run is an apply with the protocol, http mode and port of the last
\* run, and none of its commands fails
ApplyWithSameInputs ==
    /\ run'.n = run.n + 1
    /\ run'.in.MODE = "apply"
    /\ run'.in.PROTOCOL = run.in.PROTOCOL
    /\ run'.in.HTTP_MODE_REQUEST = run.in.HTTP_MODE_REQUEST
    /\ run'.in.PROXY_PORT = run.in.PROXY_PORT
    /\ run'.fault = "none"

\* the message of a failed port-validity, port-availability or
\* foreign-squid-config check
IsCheckFailure(msg) ==
    \/ HasPrefix(msg, "Invalid proxy port: ")
    \/ HasPrefix(msg, "Port ") /\ Contains(msg, " is already in use.")
    \/ HasPrefix(msg, "Existing non-beammeup Squid config detected")

\* C39: when a preflight run has reported BM_PREFLIGHT=OK, an apply run with
\* the same protocol, http mode and port on the host as the preflight found
\* it does not fail its port-validity, port-availability or
\* foreign-squid-config check
C39_ApplyPassesWhatPreflightPassed ==
    [][(PreflightOK /\ ApplyWithSameInputs) => ~IsCheckFailure(run'.die)]_vars

\* an inventory run has ended, with or without report
InventoryRun == run'.n = run.n + 1 /\ run'.in.MODE = "inventory"

\* the run left everything but the metadata file as it was
OnlyMetadataChanged == [host' EXCEPT !.meta = host.meta] = host

\* C33 as stated: an inventory run changes no remote state except the
\* metadata file, and it writes the metadata file only when that file
\* existed before the run
C33_WritesOnlyExistingMetadata ==
    [][InventoryRun =>
          /\ OnlyMetadataChanged
          /\ host'.meta # host.meta => Exists(host.meta)]_vars

\* C33 amended: an inventory run changes no remote state except the metadata
\* file; it leaves the file written with the reported status when the file
\* existed before the run or a service exists, and leaves it absent otherwise
C33_WritesMetadataIfPresentOrServices ==
    [][InventoryRun =>
          /\ OnlyMetadataChanged
          /\ IF Exists(host.meta) \/ ReportedServices(run'.kv) # {}
             THEN host'.meta = MetaFile(Get(run'.kv, "BM_HANGAR_STATUS"), "inventory refresh")
             ELSE ~Exists(host'.meta)]_vars

\* an inventory run found a service and no metadata file, and created the file
C33_Witness ==
    /\ run.in.MODE = "inventory" /\ run.exit = 0
    /\ ~run.metaBefore
    /\ ReportedServices(run.kv) # {}
    /\ host.meta = MetaFile(Get(run.kv, "BM_HANGAR_STATUS"), "inventory refresh")

(***************************************************************************)
(* Ship store (internal/ships).  ships.dir is the store's directory: a     *)
(* function from file names to file contents.  A Ship is the record the    *)
(* store's callers and tests build; Save and Load are those of the store.  *)
(***************************************************************************)
RECURSIVE ReplaceAll(_, _, _)
\* strings.ReplaceAll for a one-byte old
ReplaceAll(s, old, new) ==
    IF s = "" THEN ""
    ELSE (IF Ch(s, 1) = old THEN new ELSE Ch(s, 1)) \o ReplaceAll(Tail(s), old, new)

RECURSIVE TrimLeft(_, _)
TrimLeft(s, c) == IF Len(s) > 0 /\ Ch(s, 1) = c THEN TrimLeft(Tail(s), c) ELSE s

RECURSIVE TrimRight(_, _)
TrimRight(s, c) ==
    IF Len(s) > 0 /\ Ch(s, Len(s)) = c THEN TrimRight(SubSeq(s, 1, Len(s) - 1), c) ELSE s

\* strings.Trim(s, "-")
Trim(s, c) == TrimRight(TrimLeft(s, c), c)

\* the runes SanitizeName keeps
NameRunes == LowerLetters \o "0123456789._-"

NameRuneSet == {Ch(NameRunes, i) : i \in 1..Len(NameRunes)}

RECURSIVE SanitizeRunes_DashPerRune(_, _)
\* a loop that writes one dash for every rune it drops
SanitizeRunes_DashPerRune(raw, lastDash) ==
    IF raw = "" THEN ""
    ELSE LET r == Ch(raw, 1)
         IN  IF r \in NameRuneSet
             THEN IF r = "-" /\ lastDash THEN SanitizeRunes_DashPerRune(Tail(raw), lastDash)
                  ELSE r \o SanitizeRunes_DashPerRune(Tail(raw), r = "-")
             ELSE "-" \o SanitizeRunes_DashPerRune(Tail(raw), TRUE)

RECURSIVE SanitizeRunes(_, _)
\* the loop of SanitizeName over the runes of raw
SanitizeRunes(raw, lastDash) ==
    IF raw = "" THEN ""
    ELSE LET r == Ch(raw, 1)
         IN  IF r \in NameRuneSet
             THEN IF r = "-" /\ lastDash THEN SanitizeRunes(Tail(raw), lastDash)
                  ELSE r \o SanitizeRunes(Tail(raw), r = "-")
             ELSE IF ~lastDash THEN "-" \o SanitizeRunes(Tail(raw), TRUE)
             ELSE SanitizeRunes(Tail(raw), lastDash)

SanitizeName(raw) ==
    Trim(SanitizeRunes(ReplaceAll(ToLower(TrimSpace(raw)), " ", "-"), FALSE), "-")

\* Store.path, relative to the store's directory
path(name) == name \o ".ship"

\* strconv.Itoa
strconvItoa(n) == IF n < 0 THEN "-" \o Itoa(0 - n) ELSE Itoa(n)

\* strconv.Atoi: an optional sign and decimal digits
strconvAtoi(raw) ==
    LET signed == Len(raw) > 0 /\ Ch(raw, 1) \in {"+", "-"}
        digits == IF signed THEN Tail(raw) ELSE raw
    IN  IF ~IsDigits(digits) THEN [ok |-> FALSE, v |-> 0]
        ELSE [ok |-> TRUE,
              v |-> IF signed /\ Ch(raw, 1) = "-" THEN 0 - Atoi(digits) ELSE Atoi(digits)]

parseIntDefault(raw, def) ==
    LET r == strconvAtoi(TrimSpace(raw))
    IN  IF ~r.ok \/ r.v <= 0 THEN def ELSE r.v

defaultIfEmpty(v, d) == IF TrimSpace(v) = "" THEN d ELSE v

\* strings.EqualFold over ASCII
EqualFold(a, b) == ToLower(a) = ToLower(b)

RECURSIVE LoadLines(_, _)
\* the scan loop of Load: KEY=value lines, blank and # lines skipped
LoadLines(lines, vals) ==
    IF Len(lines) = 0 THEN vals
    ELSE LET line == TrimSpace(lines[1])
             eq   == IndexByte(line, "=", 1)
         IN  IF line = "" \/ HasPrefix(line, "#") \/ eq = 0
             THEN LoadLines(Tail(lines), vals)
             ELSE LoadLines(Tail(lines),
                      (SubSeq(line, 1, eq - 1) :> SubSeq(line, eq + 1, Len(line))) @@ vals)

\* scanner.Err(): a line does not fit the scanner's buffer
ScanErr(content) ==
    Len(content) >= MaxScanTokenSize /\ \E a \in LineStarts(content) :
        LET rest == {i \in Newlines(content) : i >= a}
            nl   == IF rest = {} THEN Len(content) + 1
                    ELSE CHOOSE i \in rest : \A j \in rest : i <= j
        IN  nl - a >= MaxScanTokenSize

\* Store.Load: the ship and the error ("" for nil)
Load(dir, name0) ==
    LET name == SanitizeName(name0)
    IN  IF name = "" THEN [ship |-> ZeroShip, err |-> "invalid ship name"]
        ELSE IF path(name) \notin DOMAIN dir
        THEN [ship |-> ZeroShip, err |-> "open ship file"]
        ELSE IF ScanErr(dir[path(name)])
        THEN [ship |-> ZeroShip, err |-> "scan ship file"]
        ELSE LET vals     == LoadLines(ScanLines(dir[path(name)]), EmptyKV)
                 protocol == Get(vals, "PROTOCOL")
                 noFW     == Get(vals, "NO_FIREWALL_CHANGE")
                 ship     ==
                     [ZeroShip EXCEPT
                        !.Name = name,
                        !.Host = Get(vals, "HOST"),
                        !.SSHPort = parseIntDefault(Get(vals, "SSH_PORT"), 22),
                        !.SSHUser = defaultIfEmpty(Get(vals, "SSH_USER"), "root"),
                        !.Protocol = IF protocol = "" THEN "http" ELSE protocol,
                        !.ProxyPort = parseIntDefault(Get(vals, "PROXY_PORT"), 18181),
                        !.NoFirewallChange = (noFW = "1" \/ EqualFold(noFW, "true"))]
             IN  IF TrimSpace(ship.Host) = ""
                 THEN [ship |-> ZeroShip, err |-> "ship missing HOST"]
                 ELSE [ship |-> ship, err |-> ""]

\* the defaults Save fills in
Normalize(ship) ==
    LET s1 == [ship EXCEPT !.SSHPort = IF @ = 0 THEN 22 ELSE @,
                           !.SSHUser = IF TrimSpace(@) = "" THEN "root" ELSE @,
                           !.Protocol = IF TrimSpace(@) = "" THEN "http" ELSE @]
    IN  [s1 EXCEPT !.ProxyPort = IF @ # 0 THEN @
                                 ELSE IF s1.Protocol = "socks5" THEN 1080 ELSE 18181]

\* the lines Save writes
Content(ship) ==
    JoinWith(<<"HOST=" \o ship.Host,
               "SSH_PORT=" \o strconvItoa(ship.SSHPort),
               "SSH_USER=" \o ship.SSHUser,
               "PROTOCOL=" \o ship.Protocol,
               "PROXY_PORT=" \o strconvItoa(ship.ProxyPort),
               "NO_FIREWALL_CHANGE=" \o (IF ship.NoFirewallChange THEN "1" ELSE "0"),
               "">>, "\n")

\* the checks of Save on the ship with its sanitised name: the error, "" for none
SaveRejects(ship) ==
    IF ship.Name = "" THEN "ship name is required"
    ELSE IF TrimSpace(ship.Host) = "" THEN "ship host is required"
    ELSE ""

\* os.WriteFile(path, content, 0600): the file is created or truncated and
\* written; it can fail before the file is opened, or after it was truncated
WriteFile(dir, file, content, io) ==
    IF io = "open fails" THEN dir
    ELSE IF io = "write fails" THEN (file :> "") @@ dir
    ELSE (file :> content) @@ dir

\* Store.Save: the directory, the ship returned and the error
Save(dir, ship0, io) ==
    LET named == [ship0 EXCEPT !.Name = SanitizeName(@)]
    IN  IF SaveRejects(named) # ""
        THEN [dir |-> dir, ship |-> ZeroShip, err |-> SaveRejects(named)]
        ELSE LET ship == Normalize(named)
             IN  IF io # "ok"
                 THEN [dir |-> WriteFile(dir, path(ship.Name), Content(ship), io),
                       ship |-> ZeroShip, err |-> "write ship file"]
                 ELSE [dir |-> WriteFile(dir, path(ship.Name), Content(ship), io),
                       ship |-> ship, err |-> ""]

\* a Delete that removes the file of the name as given
Delete_RawName(dir, name0, removeOK) ==
    LET name == SanitizeName(name0)
    IN  IF name = "" THEN [dir |-> dir, err |-> "invalid ship name"]
        ELSE IF path(name0) \notin DOMAIN dir THEN [dir |-> dir, err |-> ""]
        ELSE IF ~removeOK THEN [dir |-> dir, err |-> "delete ship"]
        ELSE [dir |-> [f \in DOMAIN dir \ {path(name0)} |-> dir[f]], err |-> ""]

\* Store.Delete: removing a file that does not exist is no error
Delete(dir, name0, removeOK) ==
    LET name == SanitizeName(name0)
    IN  IF name = "" THEN [dir |-> dir, err |-> "invalid ship name"]
        ELSE IF path(name) \notin DOMAIN dir THEN [dir |-> dir, err |-> ""]
        ELSE IF ~removeOK THEN [dir |-> dir, err |-> "delete ship"]
        ELSE [dir |-> [f \in DOMAIN dir \ {path(name)} |-> dir[f]], err |-> ""]

\* Store.List: the names of the .ship files, sorted
List(dir) ==
    SortStrings({SubSeq(f, 1, Len(f) - 5) :
                    f \in {g \in DOMAIN dir : Len(g) >= 5 /\ SubSeq(g, Len(g) - 4, Len(g)) = ".ship"}})

\* the ships of the store's tests
CompatShip ==
    [Name |-> "RPS VPS", Host |-> "203.0.113.10", SSHPort |-> 22, SSHUser |-> "root",
     Protocol |-> "http", HTTPMode |-> "sidecar", ProxyPort |-> 18181,
     NoFirewallChange |-> TRUE, ListenLocal |-> TRUE, SmartBlinder |-> TRUE,
     SmartBlinderIdleMinutes |-> 15]

\* the same ship without the fields Save does not write
PlainShip ==
    [CompatShip EXCEPT !.HTTPMode = "", !.ListenLocal = FALSE, !.SmartBlinder = FALSE,
                       !.SmartBlinderIdleMinutes = 0]

\* the file of the legacy test, written into the directory by hand
LegacyFile == "HOST=203.0.113.10\nSSH_USER=root\n"

\* the longest raw name of the name inputs
MaxNameLen == 4

NameAlphabet == {"a", "B", "1", " ", "-", ".", "!"}

RECURSIVE StringsUpTo(_, _)
StringsUpTo(alphabet, n) ==
    IF n = 0 THEN {""}
    ELSE LET shorter == StringsUpTo(alphabet, n - 1)
         IN  shorter \cup {x \o c : x \in shorter, c \in alphabet}

NameInputs ==
    StringsUpTo(NameAlphabet, MaxNameLen) \cup {"RPS VPS", "rps-vps", "legacy"}

\* the ships given to Save: the test's ship, and ships that differ from it
\* or from the plain ship in one field
ShipInputs ==
    {CompatShip, PlainShip}
    \cup {[CompatShip EXCEPT !.Name = v] : v \in {"", "!"}}
    \cup {[PlainShip EXCEPT !.Host = v] : v \in {"", " h "}}
    \cup {[PlainShip EXCEPT !.SSHPort = v] : v \in {0, 65536, 0 - 1}}
    \cup {[PlainShip EXCEPT !.SSHUser = v] : v \in {""}}
    \cup {[PlainShip EXCEPT !.Protocol = v, !.ProxyPort = w] : v \in {"", "socks5"}, w \in {0, 1080}}
    \cup {[PlainShip EXCEPT !.ProxyPort = v] : v \in {70000}}
    \cup {[PlainShip EXCEPT !.NoFirewallChange = FALSE]}

\* history of the store: the names saved and not deleted since (a file an
\* earlier process saved counts), and the names whose Save failed after it
\* had created the file
SavedAfterSave(name, io, err) ==
    IF err = "" THEN ships.saved \cup {name} ELSE ships.saved

HalfwayAfterSave(name, io, err) ==
    IF err = "" THEN ships.halfway \ {name}
    ELSE IF err = "write ship file" /\ io = "write fails" /\ name \notin ships.saved
    THEN ships.halfway \cup {name}
    ELSE ships.halfway

ShipSave(ship, io) ==
    LET r    == Save(ships.dir, ship, io)
        name == SanitizeName(ship.Name)
    IN  /\ ships' = [IdleShips EXCEPT !.dir = r.dir, !.op = "save", !.name = ship.Name,
                                      !.arg = ship,
                                      !.ret = IF r.err = "" THEN r.ship ELSE "none",
                                      !.err = r.err,
                                      !.saved = SavedAfterSave(name, io, r.err),
                                      !.halfway = HalfwayAfterSave(name, io, r.err)]
        /\ UNCHANGED <<svc, trust, conns, host, run, sock, tun, cache, drv, up, app>>

ShipLoad(name) ==
    LET r == Load(ships.dir, name)
    IN  /\ ships' = [IdleShips EXCEPT !.dir = ships.dir, !.op = "load", !.name = name,
                                      !.ret = IF r.err = "" THEN r.ship ELSE "none",
                                      !.err = r.err,
                                      !.saved = ships.saved, !.halfway = ships.halfway]
        /\ UNCHANGED <<svc, trust, conns, host, run, sock, tun, cache, drv, up, app>>

ShipDelete(name, removeOK) ==
    LET r == Delete(ships.dir, name, removeOK)
    IN  /\ ships' = [IdleShips EXCEPT
                        !.dir = r.dir, !.op = "delete", !.name = name, !.err = r.err,
                        !.saved = IF r.err = "" THEN ships.saved \ {SanitizeName(name)}
                                  ELSE ships.saved,
                        !.halfway = IF r.err = "" THEN ships.halfway \ {SanitizeName(name)}
                                    ELSE ships.halfway]
        /\ UNCHANGED <<svc, trust, conns, host, run, sock, tun, cache, drv, up, app>>

ShipList ==
    /\ ships' = [IdleShips EXCEPT !.dir = ships.dir, !.op = "list", !.list = List(ships.dir),
                                  !.saved = ships.saved, !.halfway = ships.halfway]
    /\ UNCHANGED <<svc, trust, conns, host, run, sock, tun, cache, drv, up, app>>

ShipSaveAny == \E ship \in ShipInputs, io \in {"ok", "open fails", "write fails"} : ShipSave(ship, io)

\* the names given to Load and Delete
StoreNames == {"RPS VPS", "legacy", "!"}

ShipLoadAny == \E name \in StoreNames : ShipLoad(name)

ShipDeleteAny == \E name \in StoreNames, removeOK \in BOOLEAN : ShipDelete(name, removeOK)

InitShips ==
    /\ svc = IdleSvc
    /\ trust = <<>>
    /\ app = IdleApp
    /\ up = IdleUp
    /\ drv = IdleDrv
    /\ cache = IdleCache
    /\ conns = <<>>
    /\ host = IdleHost
    /\ run = IdleRun
    /\ sock = IdleSock
    /\ tun = IdleTun
    /\ ships \in {IdleShips,
                  [IdleShips EXCEPT !.dir = path("legacy") :> LegacyFile, !.saved = {"legacy"}]}

NextShips == ShipSaveAny \/ ShipLoadAny \/ ShipDeleteAny \/ ShipList

SpecShips == InitShips /\ [][NextShips]_vars

\* SanitizeName applied to a raw name, and again to its own result
ShipSanitize ==
    /\ ships.op \in {"name", "sanitized"}
    /\ ships' = [IdleShips EXCEPT !.op = "sanitized", !.arg = ships.name,
                                  !.name = SanitizeName(ships.name)]
    /\ UNCHANGED <<svc, trust, conns, host, run, sock, tun, cache, drv, up, app>>

InitShipNames ==
    /\ svc = IdleSvc
    /\ trust = <<>>
    /\ app = IdleApp
    /\ up = IdleUp
    /\ drv = IdleDrv
    /\ cache = IdleCache
    /\ conns = <<>>
    /\ host = IdleHost
    /\ run = IdleRun
    /\ sock = IdleSock
    /\ tun = IdleTun
    /\ ships \in {[IdleShips EXCEPT !.op = "name", !.name = x] : x \in NameInputs}

NextShipNames == ShipSanitize

SpecShipNames == InitShipNames /\ [][NextShipNames]_vars

\* C19: sanitising a ship name is idempotent: for every raw name x,
\* SanitizeName applied to SanitizeName(x) gives SanitizeName(x) again.
C19_SanitizeIdempotent ==
    ships.op = "sanitized" => SanitizeName(ships.name) = ships.name

\* a raw name with a run of dropped runes inside has been sanitised
C19_Witness ==
    /\ ships.op = "sanitized"
    /\ ships.arg = "B!!a"
    /\ ships.name = "b-a"

\* a Save that succeeded is followed by a Load of the name it saved under
LoadsSaved ==
    /\ ships.op = "save"
    /\ ships.err = ""
    /\ ships'.op = "load"
    /\ SanitizeName(ships'.name) = ships.ret.Name

\* C18: for every ship that Save accepts, a Load of the saved name returns
\* the ship Save returned, that is the ship with its defaults filled in,
\* equal in every field.
C18_RoundTrip ==
    [][LoadsSaved => ships'.err = "" /\ ships'.ret = ships.ret]_vars

\* the invariants of a ship: a name, a host, and both ports in 1..65535
ShipInvariants(ship) ==
    /\ ship.Name # ""
    /\ TrimSpace(ship.Host) # ""
    /\ ship.SSHPort \in 1..65535
    /\ ship.ProxyPort \in 1..65535

\* the ship Save is about to write: name sanitised, defaults filled in
ShipToWrite(ship) == Normalize([ship EXCEPT !.Name = SanitizeName(@)])

\* C20: every ship Save accepts and writes has a non-empty sanitised name, a
\* non-empty host and both ports in 1..65535; a ship that breaks one of these
\* is rejected with an error, and no file is written or changed.
C20_SaveKeepsInvariants ==
    /\ [](ships.op = "save" /\ ships.err = "" => ShipInvariants(ships.ret))
    /\ [][ships'.op = "save" /\ ~ShipInvariants(ShipToWrite(ships'.arg))
            => ships'.err # "" /\ ships'.dir = ships.dir]_vars

\* C21: after any sequence of Save and Delete, List returns exactly the
\* sanitised names of the ships saved and not deleted since, sorted.
C21_ListIsSaved ==
    ships.op = "list" => ships.list = SortStrings(ships.saved)

\* C21 as it holds: List returns, sorted, the names saved and not deleted
\* since together with the names whose Save failed after creating the file.
C21_ListIsSavedOrHalfway ==
    ships.op = "list" => ships.list = SortStrings(ships.saved \cup ships.halfway)

\* a ship was saved next to an older one and both are listed in order
C21_Witness ==
    /\ ships.op = "list"
    /\ ships.saved = {"rps-vps", "legacy"}
    /\ ships.list = <<"legacy", "rps-vps">>

\* a ship file with a HOST and none of the keys that have defaults
LacksOtherKeys(content) ==
    LET vals == LoadLines(ScanLines(content), EmptyKV)
    IN  /\ TrimSpace(Get(vals, "HOST")) # ""
        /\ DOMAIN vals \cap {"PROTOCOL", "SSH_PORT", "PROXY_PORT", "LISTEN_LOCAL",
                             "SMART_BLINDER", "SMART_BLINDER_IDLE_MINUTES"} = {}

\* a Load has just read such a file
LoadedLegacy ==
    /\ ships.op = "load"
    /\ path(SanitizeName(ships.name)) \in DOMAIN ships.dir
    /\ LacksOtherKeys(ships.dir[path(SanitizeName(ships.name))])

\* C22: loading a ship file that has HOST but lacks the other keys succeeds
\* with protocol http, ssh port 22, proxy port 18181, listen_local false,
\* smart_blinder true and smart_blinder_idle_minutes 10.
C22_LegacyDefaults ==
    LoadedLegacy =>
        /\ ships.err = ""
        /\ ships.ret.Protocol = "http"
        /\ ships.ret.SSHPort = 22
        /\ ships.ret.ProxyPort = 18181
        /\ ships.ret.ListenLocal = FALSE
        /\ ships.ret.SmartBlinder = TRUE
        /\ ships.ret.SmartBlinderIdleMinutes = 10

(***************************************************************************)
(* Password cache (internal/session).  cache.m is the map, cache.readers   *)
(* and cache.writer are the holders of the RWMutex, cache.callers are the  *)
(* goroutines calling Get, Set, Forget and Clear, and cache.hist is the    *)
(* sequence of the writes in the order they reached the map.               *)
(***************************************************************************)
\* the goroutines that share the cache
MaxCallers == 2

\* the writes (Set, Forget, Clear) of one behaviour
MaxCacheOps == 2

Callers == 1..MaxCallers

CacheNames == {"rps", "a"}

CachePasswords == {"secret", "1"}

IdleCaller == [pc |-> "idle", op |-> "", name |-> "", password |-> "", v |-> "", ok |-> FALSE]

CacheWrites == {"set", "forget", "clear"}

\* sync.RWMutex: RLock waits while a writer holds the lock
RLock(c, k) ==
    /\ c.writer = 0
    /\ cache' = [c EXCEPT !.readers = @ \cup {k}, !.callers[k].pc = "locked"]

\* a Lock that does not wait for the readers to leave
Lock_IgnoresReaders(c, k) ==
    /\ c.writer = 0
    /\ cache' = [c EXCEPT !.writer = k, !.callers[k].pc = "locked"]

\* sync.RWMutex: Lock waits while a writer or any reader holds the lock
Lock(c, k) ==
    /\ c.writer = 0
    /\ c.readers = {}
    /\ cache' = [c EXCEPT !.writer = k, !.callers[k].pc = "locked"]

\* v, ok := c.m[shipName]
CacheGet(c, k) ==
    LET name == c.callers[k].name
    IN  [c EXCEPT !.callers[k].pc = "accessed",
                  !.callers[k].v = IF name \in DOMAIN c.m THEN c.m[name] ELSE "",
                  !.callers[k].ok = name \in DOMAIN c.m]

\* the write of a caller, as the history keeps it
WriteOf(caller) == [op |-> caller.op, name |-> caller.name, password |-> caller.password]

\* c.m[shipName] = password
CacheSet(c, k) ==
    [c EXCEPT !.callers[k].pc = "accessed",
              !.m = (c.callers[k].name :> c.callers[k].password) @@ @,
              !.hist = Append(@, WriteOf(c.callers[k]))]

\* delete(c.m, shipName)
CacheForget(c, k) ==
    [c EXCEPT !.callers[k].pc = "accessed",
              !.m = [n \in DOMAIN @ \ {c.callers[k].name} |-> @[n]],
              !.hist = Append(@, WriteOf(c.callers[k]))]

\* a Clear that leaves the map as it is
CacheClear_KeepsMap(c, k) ==
    [c EXCEPT !.callers[k].pc = "accessed",
              !.hist = Append(@, WriteOf(c.callers[k]))]

\* c.m = map[string]string{}
CacheClear(c, k) ==
    [c EXCEPT !.callers[k].pc = "accessed",
              !.m = EmptyKV,
              !.hist = Append(@, WriteOf(c.callers[k]))]

\* the deferred RUnlock or Unlock, and the return
Unlock(c, k) ==
    [c EXCEPT !.readers = @ \ {k},
              !.writer = IF @ = k THEN 0 ELSE @,
              !.callers[k] = IdleCaller]

\* the writes begun so far
WritesBegun(c) ==
    Len(c.hist) + Cardinality({k \in Callers : c.callers[k].op \in CacheWrites
                                                /\ c.callers[k].pc \in {"call", "locked"}})

\* a goroutine calls Get, Set, Forget or Clear
CacheCall(k, op, name, password) ==
    /\ cache.callers[k].pc = "idle"
    /\ op \in CacheWrites => WritesBegun(cache) < MaxCacheOps
    /\ cache' = [cache EXCEPT !.callers[k] =
                    [IdleCaller EXCEPT !.pc = "call", !.op = op, !.name = name,
                                       !.password = password]]
    /\ UNCHANGED <<svc, trust, conns, host, run, sock, tun, ships, drv, up, app>>

CacheRLock(k) ==
    /\ cache.callers[k].pc = "call"
    /\ cache.callers[k].op = "get"
    /\ RLock(cache, k)
    /\ UNCHANGED <<svc, trust, conns, host, run, sock, tun, ships, drv, up, app>>

CacheLock(k) ==
    /\ cache.callers[k].pc = "call"
    /\ cache.callers[k].op \in CacheWrites
    /\ Lock(cache, k)
    /\ UNCHANGED <<svc, trust, conns, host, run, sock, tun, ships, drv, up, app>>

CacheBody(k) ==
    /\ cache.callers[k].pc = "locked"
    /\ cache' = CASE cache.callers[k].op = "get"    -> CacheGet(cache, k)
                  [] cache.callers[k].op = "set"    -> CacheSet(cache, k)
                  [] cache.callers[k].op = "forget" -> CacheForget(cache, k)
                  [] cache.callers[k].op = "clear"  -> CacheClear(cache, k)
    /\ UNCHANGED <<svc, trust, conns, host, run, sock, tun, ships, drv, up, app>>

CacheUnlock(k) ==
    /\ cache.callers[k].pc = "accessed"
    /\ cache' = Unlock(cache, k)
    /\ UNCHANGED <<svc, trust, conns, host, run, sock, tun, ships, drv, up, app>>

CacheCallAny ==
    \E k \in Callers :
        \/ \E name \in CacheNames : CacheCall(k, "get", name, "")
        \/ \E name \in CacheNames, password \in CachePasswords : CacheCall(k, "set", name, password)
        \/ \E name \in CacheNames : CacheCall(k, "forget", name, "")
        \/ CacheCall(k, "clear", "", "")

CacheRLockAny == \E k \in Callers : CacheRLock(k)

CacheLockAny == \E k \in Callers : CacheLock(k)

CacheBodyAny == \E k \in Callers : CacheBody(k)

CacheUnlockAny == \E k \in Callers : CacheUnlock(k)

InitCache ==
    /\ svc = IdleSvc
    /\ trust = <<>>
    /\ app = IdleApp
    /\ up = IdleUp
    /\ drv = IdleDrv
    /\ conns = <<>>
    /\ host = IdleHost
    /\ run = IdleRun
    /\ sock = IdleSock
    /\ tun = IdleTun
    /\ ships = IdleShips
    /\ cache = [IdleCache EXCEPT !.callers = [k \in Callers |-> IdleCaller]]

NextCache == CacheCallAny \/ CacheRLockAny \/ CacheLockAny \/ CacheBodyAny \/ CacheUnlockAny

SpecCache == InitCache /\ [][NextCache]_vars

RECURSIVE LastWrite(_, _)
\* what the writes of a history leave for a name: the password of the last
\* Set of the name when no Forget of the name and no Clear came after it
LastWrite(hist, name) ==
    IF Len(hist) = 0 THEN [v |-> "", ok |-> FALSE]
    ELSE LET w == hist[Len(hist)]
         IN  IF w.op = "clear" \/ (w.op = "forget" /\ w.name = name)
             THEN [v |-> "", ok |-> FALSE]
             ELSE IF w.op = "set" /\ w.name = name THEN [v |-> w.password, ok |-> TRUE]
             ELSE LastWrite(SubSeq(hist, 1, Len(hist) - 1), name)

\* a Get has read the map and not yet returned
GetRead(k) == cache.callers[k].op = "get" /\ cache.callers[k].pc = "accessed"

\* C23: for any sequence of Set, Forget and Clear, Get(name) returns the
\* password of the most recent Set(name, p) when no Forget(name) and no Clear
\* came after it, and reports a miss otherwise.
C23_GetReturnsLastSet ==
    \A k \in Callers :
        GetRead(k) =>
            /\ cache.callers[k].ok = LastWrite(cache.hist, cache.callers[k].name).ok
            /\ cache.callers[k].v = LastWrite(cache.hist, cache.callers[k].name).v

\* a Get hits after a Set of its name, and a Get misses after a Set and a Clear
C23_Witness ==
    \E k \in Callers :
        /\ GetRead(k)
        /\ cache.callers[k].name = "rps"
        /\ ~cache.callers[k].ok
        /\ cache.hist = <<[op |-> "set", name |-> "rps", password |-> "secret"],
                          [op |-> "clear", name |-> "", password |-> ""]>>

\* the callers inside the lock
Reading == {k \in Callers : cache.callers[k].op = "get" /\ cache.callers[k].pc \in {"locked", "accessed"}}

Writing == {k \in Callers : cache.callers[k].op \in CacheWrites /\ cache.callers[k].pc \in {"locked", "accessed"}}

\* C24: Get calls may run in parallel; Set, Forget and Clear run with
\* exclusive access: no Get is inside the lock while a write is, and no two
\* writes are inside it together.
C24_WritersExclude ==
    /\ Cardinality(Writing) <= 1
    /\ Writing # {} => Reading = {}

\* two Gets are inside the lock together
C24_Witness ==
    /\ Cardinality(Reading) >= 2
    /\ Writing = {}

(***************************************************************************)
(* The argument list of the service against the argument loop of the       *)
(* agent script.                                                           *)
(***************************************************************************)
RECURSIVE ParseArgs(_, _)
\* the while loop over "$@" at the end of the script: the variables it sets,
\* and the message of die ("" when the loop ends normally).  The script runs
\* under set -u: a flag without its value ends the run.
ParseArgs(args, in) ==
    IF Len(args) = 0 THEN [in |-> in, die |-> ""]
    ELSE IF args[1] \in {"--mode", "--protocol", "--http-mode", "--proxy-port"}
    THEN IF Len(args) < 2 THEN [in |-> in, die |-> "$2: unbound variable"]
         ELSE ParseArgs(SubSeq(args, 3, Len(args)),
                  CASE args[1] = "--mode"       -> [in EXCEPT !.MODE = args[2]]
                    [] args[1] = "--protocol"   -> [in EXCEPT !.PROTOCOL = args[2]]
                    [] args[1] = "--http-mode"  -> [in EXCEPT !.HTTP_MODE_REQUEST = args[2]]
                    [] args[1] = "--proxy-port" -> [in EXCEPT !.PROXY_PORT = args[2]])
    ELSE IF args[1] = "--no-firewall-change"
    THEN ParseArgs(Tail(args), [in EXCEPT !.NO_FIREWALL_CHANGE = TRUE])
    ELSE IF args[1] = "--rotate-credentials"
    THEN ParseArgs(Tail(args), [in EXCEPT !.ROTATE_CREDENTIALS = TRUE])
    ELSE [in |-> in, die |-> "Unknown argument: " \o args[1]]

\* the variables before the loop
DefaultAgentInput == AgentInput("inventory", "", "", "", FALSE, FALSE)

\* ActionInput values with every field set or left at its zero value
FlagInputs ==
    {[Mode |-> mode, Protocol |-> protocol, HTTPMode |-> httpMode, ProxyPort |-> port,
      NoFirewallChange |-> noFW, ListenLocal |-> listenLocal, SmartBlinder |-> blinder,
      SmartBlinderIdleMinutes |-> idle, RotateCredentials |-> rotate] :
        mode \in {"inventory", "show", "preflight", "apply", "destroy"},
        protocol \in {"", "http", "socks5"}, httpMode \in {"", "sidecar"},
        port \in {0, 18181}, noFW \in BOOLEAN, listenLocal \in BOOLEAN,
        blinder \in BOOLEAN, idle \in {0, 15}, rotate \in BOOLEAN}

InitArgs ==
    /\ svc \in {PendingCall(in, "", "") : in \in FlagInputs}
    /\ trust = <<>>
    /\ app = IdleApp
    /\ up = IdleUp
    /\ drv = IdleDrv
    /\ cache = IdleCache
    /\ conns = <<>>
    /\ host = IdleHost
    /\ run = IdleRun
    /\ sock = IdleSock
    /\ tun = IdleTun
    /\ ships = IdleShips

NextArgs == RunRemoteCall

SpecArgs == InitArgs /\ [][NextArgs]_vars

\* C26: every argument list the service builds from an ActionInput is
\* accepted by the agent's argument loop, --listen-local, --smart-blinder,
\* --no-smart-blinder and --smart-blinder-idle-minutes included: no run ends
\* in the agent's "Unknown argument" failure.
C26_ArgsAccepted ==
    Ran => ParseArgs(svc.args, DefaultAgentInput).die = ""

(***************************************************************************)
(* Command-line driver (internal/cli: Runner.Run).  One run is one action: *)
(* drv.opts are the parsed options, drv.inv is what the inventory call     *)
(* returns and drv.remote what the remote command of the Execute call      *)
(* prints and how it exits.  Standard input is not a terminal and is       *)
(* empty.                                                                  *)
(***************************************************************************)
ExitSuccess == 0
ExitFailure == 1
ExitUsage == 2

NormalizeProtocol(v) ==
    IF v \in {"", "http", "socks5", "socks"}
    THEN [v |-> IF v = "socks" THEN "socks5" ELSE v, ok |-> TRUE]
    ELSE [v |-> "", ok |-> FALSE]

NormalizeAction(v) ==
    IF v \in {"", "show", "configure", "rotate", "destroy", "install", "uninstall"}
    THEN [v |-> IF v = "install" THEN "configure" ELSE IF v = "uninstall" THEN "destroy" ELSE v,
          ok |-> TRUE]
    ELSE [v |-> "", ok |-> FALSE]

NormalizeHTTPMode(v) ==
    IF v \in {"", "auto", "sidecar"}
    THEN [v |-> IF v = "auto" THEN "" ELSE v, ok |-> TRUE]
    ELSE [v |-> "", ok |-> FALSE]

\* Run: the ship after the request was merged into it
MergeShip(opts, loaded, loadedFromStore, protocol, httpMode) ==
    LET merged ==
            [loaded EXCEPT
               !.Host = IF opts.Host # "" THEN opts.Host ELSE @,
               !.SSHPort = IF opts.SSHPort > 0 THEN opts.SSHPort ELSE @,
               !.SSHUser = IF opts.SSHUser # "" THEN opts.SSHUser ELSE @,
               !.Protocol = IF protocol # "" THEN protocol ELSE @,
               !.HTTPMode = IF httpMode # "" \/ EqualFold(TrimSpace(opts.HTTPMode), "auto")
                            THEN httpMode ELSE @,
               !.ProxyPort = IF opts.ProxyPort > 0 THEN opts.ProxyPort ELSE @,
               !.NoFirewallChange = IF opts.NoFirewallChange THEN TRUE ELSE @,
               !.ListenLocal = IF loadedFromStore /\ ~opts.ListenLocalSet
                               THEN @ ELSE opts.ListenLocal,
               !.SmartBlinder = IF loadedFromStore /\ ~opts.SmartBlinderSet
                                THEN @ ELSE opts.SmartBlinder,
               !.SmartBlinderIdleMinutes = IF loadedFromStore /\ ~opts.SmartBlinderIdleMinSet
                                           THEN @ ELSE opts.SmartBlinderIdleMinutes]
    IN  [merged EXCEPT
           !.SmartBlinderIdleMinutes = IF merged.SmartBlinder /\ @ <= 0 THEN 10 ELSE @,
           !.SSHPort = IF @ = 0 THEN 22 ELSE @,
           !.SSHUser = IF @ = "" THEN "root" ELSE @]

\* p, _ := strconv.Atoi(port)
AtoiOrZero(port) == IF strconvAtoi(port).ok THEN strconvAtoi(port).v ELSE 0

resolveProxyPort(ship, inv) ==
    IF ship.ProxyPort > 0 THEN ship.ProxyPort
    ELSE IF ship.Protocol = "socks5"
    THEN IF inv.Socks5.Port # "" /\ AtoiOrZero(inv.Socks5.Port) > 0
         THEN AtoiOrZero(inv.Socks5.Port) ELSE 1080
    ELSE IF inv.HTTP.Port # "" /\ AtoiOrZero(inv.HTTP.Port) > 0 THEN AtoiOrZero(inv.HTTP.Port)
    ELSE 18181

isHTTPSquidConflict(err) ==
    err # "" /\ Contains(ToLower(err), "existing non-beammeup squid config detected")

ConflictHint ==
    "\nhint: retry with --http-mode sidecar (isolated HTTP) or --protocol socks5 --proxy-port 18080"

\* the error Run returns for an error of Execute, the hint left out
ExecuteError_NoHint(err, in) == err

\* the error Run returns for an error of Execute
ExecuteError(err, in) ==
    IF isHTTPSquidConflict(err) /\ in.Mode = "apply" /\ EqualFold(in.Protocol, "http")
    THEN err \o ConflictHint
    ELSE err

\* Run returns
Finish(d, calls, exit, err) == [d EXCEPT !.calls = calls, !.exit = exit, !.err = err, !.done = TRUE]

\* Run, after Execute returned r for the input in
RunExecuted(d, ship, in, r) ==
    LET calls   == d.calls \o <<"execute">>
        sent(x) == [x EXCEPT !.ship = ship, !.in = in, !.execErr = r.err]
    IN  IF r.err # "" THEN sent(Finish(d, calls, ExitFailure, ExecuteError(r.err, in)))
        ELSE IF in.Mode = "preflight" /\ Get(r.res.Values, "BM_PREFLIGHT") # "OK"
        THEN sent(Finish(d, calls, ExitFailure, "preflight failed"))
        ELSE sent(Finish(d, calls, ExitSuccess, ""))

\* Run: the input of the Execute call for the action and the ship
ActionInputFor(opts, ship, inv, action, rotate) ==
    LET in == IF action = "show"
              THEN [ActionInputOf("show") EXCEPT !.Protocol = ship.Protocol,
                                                 !.HTTPMode = ship.HTTPMode]
              ELSE IF action = "destroy" THEN ActionInputOf("destroy")
              ELSE IF opts.PreflightOnly
              THEN [ActionInputOf("preflight") EXCEPT
                      !.Protocol = ship.Protocol, !.HTTPMode = ship.HTTPMode,
                      !.ProxyPort = resolveProxyPort(ship, inv)]
              ELSE [ActionInputOf("apply") EXCEPT
                      !.Protocol = ship.Protocol, !.HTTPMode = ship.HTTPMode,
                      !.RotateCredentials = rotate,
                      !.ProxyPort = resolveProxyPort(ship, inv),
                      !.NoFirewallChange = ship.NoFirewallChange]
    IN  IF in.Mode \in {"apply", "preflight"}
        THEN [in EXCEPT !.ListenLocal = ship.ListenLocal,
                        !.SmartBlinder = ship.SmartBlinder,
                        !.SmartBlinderIdleMinutes = ship.SmartBlinderIdleMinutes]
        ELSE in

\* Run, from the input to the Execute call
RunInput(d, ship, in) ==
    RunExecuted(d, ship, in,
                Execute([PendingCall(in, d.remote.out, d.remote.runErr) EXCEPT !.ship = ship],
                        TRUE, TRUE))

\* Run, from the ship whose protocol is chosen to the input
RunShip(d, ship, action, rotate) ==
    IF action = "destroy" /\ ~d.opts.Yes THEN Finish(d, d.calls, ExitFailure, "cancelled")
    ELSE RunInput(d, ship, ActionInputFor(d.opts, ship, d.inv.inv, action, rotate))

\* Run, from the action to the protocol of the ship
RunAction(d, merged, action, rotate) ==
    RunShip(d,
            IF action # "destroy" /\ merged.Protocol = ""
            THEN [merged EXCEPT !.Protocol = IF d.inv.inv.HTTP.Exists THEN "http"
                                             ELSE IF d.inv.inv.Socks5.Exists THEN "socks5"
                                             ELSE "http"]
            ELSE merged,
            action, rotate)

\* Run, from the merged ship to the inventory and the action
RunMerged(d, merged, action0) ==
    LET action == IF d.opts.PreflightOnly \/ action0 = "" THEN "configure" ELSE action0
    IN  IF TrimSpace(merged.Host) = ""
        THEN Finish(d, d.calls, ExitUsage, "no host provided. use --host or --ship")
        ELSE IF TrimSpace(d.opts.SSHPassword) = ""
        THEN Finish(d, d.calls, ExitUsage, "ssh password is required")
        ELSE IF d.inv.err # ""
        THEN Finish(d, d.calls \o <<"inventory">>, ExitFailure, d.inv.err)
        ELSE IF d.opts.ShowInventory
        THEN Finish(d, d.calls \o <<"inventory">>, ExitSuccess, "")
        ELSE RunAction([d EXCEPT !.calls = @ \o <<"inventory">>], merged,
                       IF action = "rotate" THEN "configure" ELSE action, action = "rotate")

\* Run, from the loaded ship to the merged one
RunLoaded(d, loaded, protocol, httpMode, action) ==
    IF loaded.err # "" THEN Finish(d, d.calls, ExitFailure, loaded.err)
    ELSE RunMerged(d, MergeShip(d.opts, loaded.ship, d.opts.ShipName # "", protocol, httpMode),
                   action)

\* Run, from the normalised protocol, mode and action to the load of the ship
RunNormalized(d, dir, protocol, httpMode, action) ==
    IF ~protocol.ok
    THEN Finish(d, <<>>, ExitUsage, "invalid --protocol. use http or socks5")
    ELSE IF ~httpMode.ok
    THEN Finish(d, <<>>, ExitUsage, "invalid --http-mode. use auto or sidecar")
    ELSE IF ~action.ok
    THEN Finish(d, <<>>, ExitUsage, "invalid --action. use show, configure, rotate, or destroy")
    ELSE IF d.opts.PreflightOnly /\ action.v # ""
    THEN Finish(d, <<>>, ExitUsage, "use either --preflight-only or --action, not both")
    ELSE IF d.opts.ShipName # ""
    THEN RunLoaded([d EXCEPT !.calls = <<"load">>], Load(dir, d.opts.ShipName),
                   protocol.v, httpMode.v, action.v)
    ELSE RunLoaded(d, [ship |-> ZeroShip, err |-> ""], protocol.v, httpMode.v, action.v)

\* Runner.Run against the store directory dir
Run(d, dir) ==
    IF d.opts.ListShips THEN Finish(d, <<"list">>, ExitSuccess, "")
    ELSE RunNormalized(d, dir,
                       NormalizeProtocol(ToLower(TrimSpace(d.opts.Protocol))),
                       NormalizeHTTPMode(ToLower(TrimSpace(d.opts.HTTPMode))),
                       NormalizeAction(ToLower(TrimSpace(d.opts.Action))))

\* the ships directory the driver reads: two saved ships and a file of an
\* older version
DriverStore ==
    LET first  == Save(<<>>, [PlainShip EXCEPT !.Name = "sock", !.Protocol = "socks5",
                                               !.ProxyPort = 0, !.NoFirewallChange = FALSE], "ok")
        second == Save(first.dir, [PlainShip EXCEPT !.Name = "web", !.ProxyPort = 0], "ok")
    IN  second.dir @@ (path("legacy") :> LegacyFile)

DriverShipNames == {"", "legacy", "sock", "web", "gone"}

\* a request with host and password
BaseOptions == [DefaultOptions EXCEPT !.Host = "198.51.100.7", !.SSHPassword = "secret"]

\* Parse: what a flag leaves in the options, its default when it is absent
\* and its value, marked as set, when it is present
FlagValues(default, values) ==
    {[set |-> FALSE, v |-> default]} \cup {[set |-> TRUE, v |-> x] : x \in values}

\* the options Parse builds from the three flags that carry an explicit-set
\* mark, before its check of the idle minutes
FlagOptions ==
    {[BaseOptions EXCEPT !.ShipName = name, !.PreflightOnly = pre,
                          !.ListenLocal = ll.v, !.ListenLocalSet = ll.set,
                          !.SmartBlinder = sb.v, !.SmartBlinderSet = sb.set,
                          !.SmartBlinderIdleMinutes = idle.v,
                          !.SmartBlinderIdleMinSet = idle.set] :
          name \in {"", "web", "legacy"}, pre \in BOOLEAN,
          ll \in FlagValues(DefaultOptions.ListenLocal, BOOLEAN),
          sb \in FlagValues(DefaultOptions.SmartBlinder, BOOLEAN),
          idle \in FlagValues(DefaultOptions.SmartBlinderIdleMinutes, {0, 30})}

\* requests: the ship, the protocol, the port and the operation vary together,
\* the three flags with an explicit-set mark vary together as Parse accepts
\* them (smart blinder on with idle minutes <= 0 is rejected), every other
\* option varies alone
DriverOptions ==
    {[DefaultOptions EXCEPT !.ShipName = name, !.Host = h, !.SSHPassword = "secret",
                            !.Protocol = proto, !.ProxyPort = port,
                            !.Action = op.action, !.PreflightOnly = op.preflight,
                            !.Yes = op.yes] :
         name \in DriverShipNames, h \in {"", "198.51.100.7"},
         proto \in {"", "http", "socks5"}, port \in {0, 8080},
         op \in {[action |-> "", preflight |-> FALSE, yes |-> FALSE],
                 [action |-> "rotate", preflight |-> FALSE, yes |-> FALSE],
                 [action |-> "show", preflight |-> FALSE, yes |-> FALSE],
                 [action |-> "destroy", preflight |-> FALSE, yes |-> TRUE],
                 [action |-> "", preflight |-> TRUE, yes |-> FALSE]}}
    \cup {[BaseOptions EXCEPT !.Protocol = v] : v \in {" Socks ", "HTTP", "ftp"}}
    \cup {[BaseOptions EXCEPT !.HTTPMode = v] : v \in {"sidecar", "Auto", "squid"}}
    \cup {[BaseOptions EXCEPT !.Action = v] :
              v \in {"install", "uninstall", "configure", "destroy", "reboot"}}
    \cup {[BaseOptions EXCEPT !.Action = "show", !.PreflightOnly = TRUE],
          [BaseOptions EXCEPT !.ListShips = TRUE],
          [BaseOptions EXCEPT !.ShowInventory = TRUE],
          [BaseOptions EXCEPT !.SSHPassword = " "],
          [BaseOptions EXCEPT !.SSHPort = 2222, !.SSHUser = "admin"],
          [BaseOptions EXCEPT !.NoFirewallChange = TRUE]}
    \cup {o \in FlagOptions : ~(o.SmartBlinder /\ o.SmartBlinderIdleMinutes <= 0)}

\* what the inventory call returns
InventoryOutcomes ==
    {[err |-> "ssh connect: dial tcp: i/o timeout", inv |-> ZeroInventory]}
    \cup {[err |-> "", inv |-> parseInventory(ParseBM(out))] :
              out \in {"BM_PUBLIC_IP=198.51.100.7\n",
                       "BM_PUBLIC_IP=198.51.100.7\nBM_SOCKS_EXISTS=1\nBM_SOCKS_PORT=1081\n",
                       "BM_PUBLIC_IP=198.51.100.7\nBM_HTTP_EXISTS=1\nBM_HTTP_PORT=3128\n",
                       "BM_PUBLIC_IP=198.51.100.7\nBM_SOCKS_EXISTS=1\nBM_SOCKS_PORT=1081\n"
                           \o "BM_HTTP_EXISTS=1\nBM_HTTP_PORT=3128\n"}}

\* what the remote command of the Execute call prints and how it exits
RemoteOutcomes ==
    {[out |-> "BM_RESULT_PROTOCOL=HTTP\nBM_RESULT_HOST=198.51.100.7\n", runErr |-> ""],
     [out |-> "BM_PREFLIGHT=OK\n", runErr |-> ""],
     [out |-> "BM_PREFLIGHT=FAIL\n", runErr |-> ""],
     [out |-> "[remote] ERROR: apt-get update failed\n",
      runErr |-> "Process exited with status 1"]}
    \cup {[out |-> "[remote] preparing\n[remote] ERROR: " \o ConflictMessage(tail) \o "\n",
           runErr |-> "Process exited with status 1"] :
              tail \in {"Use --http-mode sidecar or choose SOCKS5.", "Refusing to overwrite."}}

DriverRun ==
    /\ ~drv.done
    /\ drv' = Run(drv, DriverStore)
    /\ UNCHANGED <<svc, trust, conns, host, run, sock, tun, ships, cache, up, app>>

InitDriver ==
    /\ drv \in {[IdleDrv EXCEPT !.opts = o, !.inv = i, !.remote = r] :
                    o \in DriverOptions, i \in InventoryOutcomes, r \in RemoteOutcomes}
    /\ svc = IdleSvc
    /\ trust = <<>>
    /\ app = IdleApp
    /\ up = IdleUp
    /\ conns = <<>>
    /\ host = IdleHost
    /\ run = IdleRun
    /\ sock = IdleSock
    /\ tun = IdleTun
    /\ ships = IdleShips
    /\ cache = IdleCache

NextDriver == DriverRun

SpecDriver == InitDriver /\ [][NextDriver]_vars

\* an apply or a preflight was sent
SentPort == drv.done /\ (\E i \in DOMAIN drv.calls : drv.calls[i] = "execute") /\ drv.in.Mode \in {"apply", "preflight"}

\* the keys of the file of the requested ship
RequestedShipFile ==
    IF drv.opts.ShipName = "" THEN EmptyKV
    ELSE LoadLines(ScanLines(DriverStore[path(SanitizeName(drv.opts.ShipName))]), EmptyKV)

\* the port of the chosen protocol in the inventory, 0 without one
InventoryPort ==
    IF drv.in.Protocol = "socks5" THEN AtoiOrZero(drv.inv.inv.Socks5.Port)
    ELSE AtoiOrZero(drv.inv.inv.HTTP.Port)

\* C27: the proxy port sent for apply and preflight is the port of the
\* request, else the port saved in the ship's file, else the inventory port of
\* the chosen protocol, else the protocol default (1080 for socks5, 18181 for
\* http)
C27_PortPrecedence ==
    SentPort =>
        drv.in.ProxyPort =
            IF drv.opts.ProxyPort > 0 THEN drv.opts.ProxyPort
            ELSE IF AtoiOrZero(Get(RequestedShipFile, "PROXY_PORT")) > 0
            THEN AtoiOrZero(Get(RequestedShipFile, "PROXY_PORT"))
            ELSE IF InventoryPort > 0 THEN InventoryPort
            ELSE IF drv.in.Protocol = "socks5" THEN 1080 ELSE 18181

\* an apply with protocol http failed and the remote printed the conflict
SquidConflict ==
    /\ drv.done
    /\ drv.in.Mode = "apply"
    /\ drv.in.Protocol = "http"
    /\ drv.execErr # ""
    /\ Contains(drv.remote.out, "Existing non-beammeup Squid config detected")

\* C28: when an apply with protocol http fails and the remote's error output
\* contains "Existing non-beammeup Squid config detected", the error the
\* driver returns is the error of the Execute call, which holds the remote's
\* message, followed by a hint that names --http-mode sidecar
C28_ConflictHint ==
    SquidConflict =>
        /\ drv.exit = ExitFailure
        /\ Contains(drv.execErr, "Existing non-beammeup Squid config detected")
        /\ HasPrefix(drv.err, drv.execErr)
        /\ Contains(SubSeq(drv.err, Len(drv.execErr) + 1, Len(drv.err)), "--http-mode sidecar")

\* a loaded ship's apply met the conflict whose message names no other mode
C28_Witness ==
    /\ SquidConflict
    /\ drv.opts.ShipName = "web"
    /\ Contains(drv.remote.out, "Refusing to overwrite.")
    /\ ~Contains(drv.execErr, "--http-mode sidecar")
    /\ Contains(drv.err, "--http-mode sidecar")

\* Run merged a request into a ship loaded from the store and sent the
\* merged ship to Execute
MergedSavedShip ==
    /\ drv.done
    /\ drv.opts.ShipName # ""
    /\ \E i \in DOMAIN drv.calls : drv.calls[i] = "execute"

\* the ship the store gave for the request
LoadedShip == Load(DriverStore, drv.opts.ShipName).ship

\* C36: in the merge of a saved ship with a request, listen_local,
\* smart_blinder and smart_blinder_idle_minutes keep their saved values
\* unless the corresponding flag was explicitly set in the request, in which
\* case the request's value is used
C36_SavedUnlessExplicitlySet ==
    MergedSavedShip =>
        /\ drv.ship.ListenLocal =
               IF drv.opts.ListenLocalSet THEN drv.opts.ListenLocal
               ELSE LoadedShip.ListenLocal
        /\ drv.ship.SmartBlinder =
               IF drv.opts.SmartBlinderSet THEN drv.opts.SmartBlinder
               ELSE LoadedShip.SmartBlinder
        /\ drv.ship.SmartBlinderIdleMinutes =
               IF drv.opts.SmartBlinderIdleMinSet THEN drv.opts.SmartBlinderIdleMinutes
               ELSE LoadedShip.SmartBlinderIdleMinutes

\* the same, the idle minutes left aside when the merged ship has the smart
\* blinder on and the merge gave idle minutes <= 0
C36_SavedUnlessExplicitlySetOrDefaulted ==
    MergedSavedShip =>
        LET idle == IF drv.opts.SmartBlinderIdleMinSet THEN drv.opts.SmartBlinderIdleMinutes
                    ELSE LoadedShip.SmartBlinderIdleMinutes
        IN  /\ drv.ship.ListenLocal =
                   IF drv.opts.ListenLocalSet THEN drv.opts.ListenLocal
                   ELSE LoadedShip.ListenLocal
            /\ drv.ship.SmartBlinder =
                   IF drv.opts.SmartBlinderSet THEN drv.opts.SmartBlinder
                   ELSE LoadedShip.SmartBlinder
            /\ drv.ship.SmartBlinderIdleMinutes =
                   IF drv.ship.SmartBlinder /\ idle <= 0 THEN 10 ELSE idle

(***************************************************************************)
(* Client.Upload (internal/sshx): an SFTP session on the SSH connection,   *)
(* Create of the remote path, Write of the content, Chmod, Close.  The     *)
(* step that fails, and how many bytes a failing Write has stored, are the *)
(* server's and the network's choice.                                      *)
(***************************************************************************)
MaxContentLen == 3

\* the first bytes of the agent script
ScriptHead == "#!/usr/bin/env bash"

UploadContents == {SubSeq(ScriptHead, 1, n) : n \in 0..MaxContentLen}

\* 0o700 is the mode runRemote asks for
UploadModes == {"0700", "0600", "0755"}

\* what a server gives a file that Create makes
CreatedMode == "0644"

RemoteFiles == {NoRemoteFile, [exists |-> TRUE, content |-> "old", mode |-> "0755"]}

UploadFaults == {"none", "sftp", "create", "write", "chmod", "close"}

\* sftpClient.Create: open with O_RDWR|O_CREATE|O_TRUNC
Create(file) ==
    [exists |-> TRUE, content |-> "", mode |-> IF file.exists THEN file.mode ELSE CreatedMode]

\* Client.Upload
Upload(u, fault, written) ==
    IF fault = "sftp"
    THEN [u EXCEPT !.fault = fault, !.err = "sftp: subsystem request failed", !.done = TRUE]
    ELSE IF fault = "create"
    THEN [u EXCEPT !.fault = fault, !.sftp = "closed", !.err = "sftp: permission denied",
                   !.done = TRUE]
    ELSE IF fault = "write"
    THEN [u EXCEPT !.fault = fault, !.written = written,
                   !.file = [Create(u.file) EXCEPT !.content = SubSeq(u.content, 1, written)],
                   !.sftp = "closed", !.handle = "closed",
                   !.err = "sftp: connection lost", !.done = TRUE]
    ELSE IF fault = "chmod"
    THEN [u EXCEPT !.fault = fault, !.written = Len(u.content),
                   !.file = [Create(u.file) EXCEPT !.content = u.content],
                   !.sftp = "closed", !.handle = "closed",
                   !.err = "sftp: operation unsupported", !.done = TRUE]
    ELSE [u EXCEPT !.fault = fault, !.written = Len(u.content),
                   !.file = [Create(u.file) EXCEPT !.content = u.content, !.mode = u.mode],
                   !.sftp = "closed", !.handle = "closed",
                   !.err = IF fault = "close" THEN "sftp: connection lost" ELSE "",
                   !.done = TRUE]

UploadCall ==
    /\ ~up.done
    /\ \E fault \in UploadFaults, written \in 0..Len(up.content) :
           up' = Upload(up, fault, written)
    /\ UNCHANGED <<svc, trust, conns, host, run, sock, tun, ships, cache, drv, app>>

InitUpload ==
    /\ up \in {[IdleUp EXCEPT !.content = c, !.mode = m, !.file = f] :
                   c \in UploadContents, m \in UploadModes, f \in RemoteFiles}
    /\ svc = IdleSvc
    /\ trust = <<>>
    /\ app = IdleApp
    /\ conns = <<>>
    /\ host = IdleHost
    /\ run = IdleRun
    /\ sock = IdleSock
    /\ tun = IdleTun
    /\ ships = IdleShips
    /\ cache = IdleCache
    /\ drv = IdleDrv

NextUpload == UploadCall

SpecUpload == InitUpload /\ [][NextUpload]_vars

\* writing the bytes or setting the mode failed
FailedMidUpload == up.done /\ up.fault \in {"write", "chmod"}

\* C32: if writing the bytes or setting the mode fails in the middle of an
\* upload, Upload returns an error and the remote path keeps no truncated
\* content: the file is gone or empty when Upload returns
C32_NoTruncatedContent ==
    FailedMidUpload =>
        /\ up.err # ""
        /\ ~up.file.exists \/ up.file.content = ""

(***************************************************************************)
(* The interactive cockpit (internal/tui: App).  One operator and one      *)
(* goroutine: a step is one menu choice handled to its end.  app.pc is the *)
(* menu on screen, app.ship the ship of shipCockpit and hangarMenu,        *)
(* app.dir the store's directory, app.secrets the map of the password      *)
(* cache, app.status the status badges.  app.deleted collects the names    *)
(* whose profile the session has removed from the store.  What the remote  *)
(* calls return is the environment's choice.                               *)
(***************************************************************************)
errUserCancelled == "user cancelled"

\* the names of the profiles in a directory
Profiles(dir) == LET names == List(dir) IN {names[i] : i \in 1..Len(names)}

\* delete(m, k)
Without(m, k) == [n \in DOMAIN m \ {k} |-> m[n]]

\* the session after a step from a to b: the profiles the step removed are
\* recorded
Removed(a, b) == [b EXCEPT !.deleted = @ \cup (Profiles(a.dir) \ Profiles(b.dir))]

\* passwordForShip: the cached password, or the one the operator types,
\* which is cached under the ship's name
passwordForShip(a, ship, prompt) ==
    IF ship.Name \in DOMAIN a.secrets /\ TrimSpace(a.secrets[ship.Name]) # ""
    THEN [a |-> a, pwd |-> a.secrets[ship.Name], err |-> ""]
    ELSE IF prompt.cancelled THEN [a |-> a, pwd |-> "", err |-> errUserCancelled]
    ELSE IF TrimSpace(prompt.text) = "" THEN [a |-> a, pwd |-> "", err |-> "password required"]
    ELSE [a |-> [a EXCEPT !.secrets = (ship.Name :> prompt.text) @@ @],
          pwd |-> prompt.text, err |-> ""]

inventoryWithPassword(a, ship, prompt, inv) ==
    LET p == passwordForShip(a, ship, prompt)
    IN  IF p.err # "" THEN [a |-> p.a, status |-> "", err |-> p.err]
        ELSE IF inv.err # "" THEN [a |-> p.a, status |-> "", err |-> inv.err]
        ELSE [a |-> [p.a EXCEPT !.status = (ship.Name :> inv.status) @@ @],
              status |-> inv.status, err |-> ""]

execWithPassword(a, ship, prompt, execErr) ==
    LET p == passwordForShip(a, ship, prompt)
    IN  IF p.err # "" THEN [a |-> p.a, err |-> p.err]
        ELSE [a |-> p.a, err |-> execErr]

ensureHangarCreated(a, ship, forcePrompt, yes, prompt, execErr) ==
    IF forcePrompt \/ yes
    THEN LET r == execWithPassword(a, ship, prompt, execErr)
         IN  IF r.err # "" THEN r
             ELSE [a |-> [r.a EXCEPT !.status = (ship.Name :> "online") @@ @], err |-> ""]
    ELSE [a |-> a, err |-> ""]

nonZero(v, d) == IF v <= 0 THEN d ELSE v

fallback(v, d) == IF TrimSpace(v) = "" THEN d ELSE v

defaultProxy(protocol) == IF protocol = "socks5" THEN 1080 ELSE 18181

\* createShipForm: the form is filled from the existing ship, the operator
\* sets the name, the host and the protocol and leaves the rest, and the
\* ship is saved
createShipForm(a, existing, form) ==
    IF form.cancelled THEN [a |-> a, ship |-> ZeroShip, err |-> errUserCancelled]
    ELSE IF SanitizeName(form.name) = ""
    THEN [a |-> a, ship |-> ZeroShip, err |-> "ship name is required"]
    ELSE LET s == Save(a.dir,
                       [ZeroShip EXCEPT
                          !.Name = SanitizeName(form.name),
                          !.Host = TrimSpace(form.host),
                          !.SSHPort = nonZero(existing.SSHPort, 22),
                          !.SSHUser = TrimSpace(fallback(existing.SSHUser, "root")),
                          !.Protocol = form.protocol,
                          !.ProxyPort = nonZero(existing.ProxyPort,
                                                defaultProxy(fallback(existing.Protocol, "http"))),
                          !.NoFirewallChange = existing.NoFirewallChange],
                       form.io)
         IN  [a |-> [a EXCEPT !.dir = s.dir], ship |-> s.ship, err |-> s.err]

\* launchShip
launchShip(a, ship, prompt, inv, yes, choice, execErr) ==
    LET i == inventoryWithPassword(a, ship, prompt, inv)
    IN  IF i.err # "" THEN [a |-> i.a, err |-> IF i.err = errUserCancelled THEN "" ELSE i.err]
        ELSE IF i.status = "missing"
        THEN IF ~yes THEN [a |-> i.a, err |-> ""]
             ELSE ensureHangarCreated(i.a, ship, FALSE, yes, prompt, execErr)
        ELSE IF i.status = "drift"
        THEN IF choice \in {"back", "cancel"} THEN [a |-> i.a, err |-> ""]
             ELSE LET d == IF choice = "recreate"
                           THEN execWithPassword(i.a, ship, prompt, execErr)
                           ELSE [a |-> i.a, err |-> ""]
                  IN  IF d.err # "" THEN d
                      ELSE ensureHangarCreated(d.a, ship, FALSE, yes, prompt, execErr)
        ELSE [a |-> i.a, err |-> ""]

\* Store.Delete succeeded, a.Secrets.Forget(name), delete(a.status, name)
Abandoned(a, name) ==
    [a EXCEPT !.secrets = Without(@, name), !.status = Without(@, name)]

\* shipCockpit, case "edit", after the form saved the ship as updated: a new
\* name deletes the old profile and moves the cached password
Renamed(a, updated, removeOK) ==
    IF updated.Name = a.ship.Name THEN [a EXCEPT !.ship = updated]
    ELSE LET old == a.ship.Name
         IN  [a EXCEPT !.dir = Delete(@, old, removeOK).dir,
                       !.secrets = IF old \in DOMAIN @
                                   THEN Without((updated.Name :> @[old]) @@ @, old)
                                   ELSE @,
                       !.status = Without(@, old),
                       !.ship = updated]

\* what the operator types into the password prompt
Prompts ==
    {[cancelled |-> TRUE, text |-> ""], [cancelled |-> FALSE, text |-> "hunter2"],
     [cancelled |-> FALSE, text |-> " "]}

\* what the operator puts into the ship form, and whether the save succeeds
Forms ==
    {[cancelled |-> TRUE, name |-> "", host |-> "", protocol |-> "http", io |-> "ok"]}
    \cup {[cancelled |-> FALSE, name |-> n, host |-> "203.0.113.10", protocol |-> "http",
           io |-> io] : n \in {"alpha", "Beta", "!"}, io \in {"ok", "open fails"}}

\* what the inventory call returns
Inventories ==
    {[err |-> "inventory failed: ssh connect: dial tcp: i/o timeout", status |-> ""]}
    \cup {[err |-> "", status |-> s] : s \in {"online", "missing", "drift"}}

\* the error of the Execute call
ExecErrs == {"", "ssh connect: dial tcp: i/o timeout"}

\* the store the session starts with
CockpitStore ==
    LET form  == [cancelled |-> FALSE, name |-> "alpha", host |-> "203.0.113.10",
                  protocol |-> "http", io |-> "ok"]
        first == createShipForm([IdleApp EXCEPT !.dir = EmptyKV], ZeroShip, form).a
    IN  createShipForm(first, ZeroShip, [form EXCEPT !.name = "beta"]).a.dir

\* App.Run with no ship in the store: onboardNoShips
AppOnboard ==
    /\ app.pc = "main"
    /\ Profiles(app.dir) = {}
    /\ \E form \in Forms :
          LET f == createShipForm(app, ZeroShip, form)
          IN  IF f.err = errUserCancelled THEN app' = app
              ELSE IF f.err # "" THEN app' = [f.a EXCEPT !.pc = "exited", !.err = f.err]
              ELSE \E prompt \in Prompts, execErr \in ExecErrs :
                      app' = ensureHangarCreated(f.a, f.ship, TRUE, TRUE, prompt, execErr).a
    /\ UNCHANGED <<svc, trust, conns, host, run, sock, tun, ships, cache, drv, up>>

\* main deck, "select": pickShip, Store.Load, shipCockpit
AppSelect ==
    /\ app.pc = "main"
    /\ \E name \in Profiles(app.dir) :
          LET l == Load(app.dir, name)
          IN  app' = IF l.err # "" THEN app
                     ELSE [app EXCEPT !.pc = "cockpit", !.ship = l.ship]
    /\ UNCHANGED <<svc, trust, conns, host, run, sock, tun, ships, cache, drv, up>>

\* main deck, "create": createShipForm, ensureHangarCreated
AppCreate ==
    /\ app.pc = "main"
    /\ Profiles(app.dir) # {}
    /\ \E form \in Forms :
          LET f == createShipForm(app, ZeroShip, form)
          IN  IF f.err = errUserCancelled THEN app' = app
              ELSE IF f.err # "" THEN app' = [f.a EXCEPT !.pc = "exited", !.err = f.err]
              ELSE \E prompt \in Prompts, execErr \in ExecErrs :
                      app' = ensureHangarCreated(f.a, f.ship, TRUE, TRUE, prompt, execErr).a
    /\ UNCHANGED <<svc, trust, conns, host, run, sock, tun, ships, cache, drv, up>>

\* main deck, "abandon"
AppAbandon ==
    /\ app.pc = "main"
    /\ \E name \in Profiles(app.dir), yes \in BOOLEAN, removeOK \in BOOLEAN :
          LET d == Delete(app.dir, name, removeOK)
          IN  app' = Removed(app,
                  IF ~yes \/ d.err # "" THEN app
                  ELSE Abandoned([app EXCEPT !.dir = d.dir], name))
    /\ UNCHANGED <<svc, trust, conns, host, run, sock, tun, ships, cache, drv, up>>

\* main deck, "exit"
AppExit ==
    /\ app.pc = "main"
    /\ Profiles(app.dir) # {}
    /\ app' = [app EXCEPT !.pc = "exited"]
    /\ UNCHANGED <<svc, trust, conns, host, run, sock, tun, ships, cache, drv, up>>

\* ship cockpit, "launch": an error is shown and the cockpit stays
CockpitLaunch ==
    /\ app.pc = "cockpit"
    /\ \E prompt \in Prompts, inv \in Inventories, yes \in BOOLEAN,
          choice \in {"repair", "recreate", "back"}, execErr \in ExecErrs :
          app' = launchShip(app, app.ship, prompt, inv, yes, choice, execErr).a
    /\ UNCHANGED <<svc, trust, conns, host, run, sock, tun, ships, cache, drv, up>>

\* ship cockpit, "hangar"
CockpitHangar ==
    /\ app.pc = "cockpit"
    /\ app' = [app EXCEPT !.pc = "hangar"]
    /\ UNCHANGED <<svc, trust, conns, host, run, sock, tun, ships, cache, drv, up>>

\* ship cockpit, "edit": a cancelled form changes nothing, an error of the
\* form ends the cockpit, a saved form replaces the ship
CockpitEdit ==
    /\ app.pc = "cockpit"
    /\ \E form \in Forms, removeOK \in BOOLEAN :
          LET f == createShipForm(app, app.ship, form)
          IN  app' = Removed(app,
                  IF f.err = errUserCancelled THEN app
                  ELSE IF f.err # "" THEN [f.a EXCEPT !.pc = "main"]
                  ELSE Renamed(f.a, f.ship, removeOK))
    /\ UNCHANGED <<svc, trust, conns, host, run, sock, tun, ships, cache, drv, up>>

\* ship cockpit, "forget"
CockpitForget ==
    /\ app.pc = "cockpit"
    /\ app' = [app EXCEPT !.secrets = Without(@, app.ship.Name)]
    /\ UNCHANGED <<svc, trust, conns, host, run, sock, tun, ships, cache, drv, up>>

\* ship cockpit, "abandon": back to the main deck when the profile is deleted
CockpitAbandon ==
    /\ app.pc = "cockpit"
    /\ \E yes \in BOOLEAN, removeOK \in BOOLEAN :
          LET d == Delete(app.dir, app.ship.Name, removeOK)
          IN  app' = Removed(app,
                  IF ~yes \/ d.err # "" THEN app
                  ELSE [Abandoned([app EXCEPT !.dir = d.dir], app.ship.Name)
                            EXCEPT !.pc = "main"])
    /\ UNCHANGED <<svc, trust, conns, host, run, sock, tun, ships, cache, drv, up>>

\* ship cockpit, "back"
CockpitBack ==
    /\ app.pc = "cockpit"
    /\ app' = [app EXCEPT !.pc = "main"]
    /\ UNCHANGED <<svc, trust, conns, host, run, sock, tun, ships, cache, drv, up>>

\* hangar menu, "show": an error other than a cancelled prompt ends the menu
HangarShow ==
    /\ app.pc = "hangar"
    /\ \E prompt \in Prompts, inv \in Inventories :
          LET i == inventoryWithPassword(app, app.ship, prompt, inv)
          IN  app' = IF i.err = "" \/ i.err = errUserCancelled THEN i.a
                     ELSE [i.a EXCEPT !.pc = "cockpit"]
    /\ UNCHANGED <<svc, trust, conns, host, run, sock, tun, ships, cache, drv, up>>

\* configurePrompt: the form, the port typed into it, and the save of the ship
configurePrompt(a, ship, form) ==
    IF form.cancelled THEN [a |-> a, err |-> errUserCancelled]
    ELSE IF ~strconvAtoi(TrimSpace(form.port)).ok \/ strconvAtoi(TrimSpace(form.port)).v <= 0
    THEN [a |-> a, err |-> "invalid proxy port: " \o form.port]
    ELSE LET s == Save(a.dir, [ship EXCEPT !.Protocol = form.protocol,
                                           !.ProxyPort = strconvAtoi(TrimSpace(form.port)).v,
                                           !.NoFirewallChange = form.noFW],
                       form.io)
         IN  [a |-> [a EXCEPT !.dir = s.dir], err |-> s.err]

\* what the operator puts into the configure form
ConfigureForms ==
    {[cancelled |-> TRUE, protocol |-> "http", port |-> "18181", noFW |-> FALSE, io |-> "ok"]}
    \cup {[cancelled |-> FALSE, protocol |-> "http", port |-> p, noFW |-> FALSE, io |-> io] :
              p \in {"18181", "0"}, io \in {"ok", "open fails"}}

\* hangar menu, "configure" and "rotate"
HangarConfigure ==
    /\ app.pc = "hangar"
    /\ \E form \in ConfigureForms :
          LET c == configurePrompt(app, app.ship, form)
          IN  IF c.err = errUserCancelled THEN app' = c.a
              ELSE IF c.err # "" THEN app' = [c.a EXCEPT !.pc = "cockpit"]
              ELSE \E prompt \in Prompts, execErr \in ExecErrs :
                      LET e == execWithPassword(c.a, app.ship, prompt, execErr)
                      IN  IF e.err = errUserCancelled THEN app' = e.a
                          ELSE IF e.err # "" THEN app' = [e.a EXCEPT !.pc = "cockpit"]
                          ELSE \E inv \in Inventories :
                                  app' = inventoryWithPassword(e.a, app.ship, prompt, inv).a
    /\ UNCHANGED <<svc, trust, conns, host, run, sock, tun, ships, cache, drv, up>>

\* hangar menu, "destroy", and the abandon it offers: the menu ends when the
\* profile is deleted or cannot be deleted
HangarDestroy ==
    /\ app.pc = "hangar"
    /\ \E yes \in BOOLEAN, text \in {" DESTROY ", "destroy"}, prompt \in Prompts,
          execErr \in ExecErrs, too \in BOOLEAN, removeOK \in BOOLEAN :
          LET e == execWithPassword(app, app.ship, prompt, execErr)
              m == [e.a EXCEPT !.status = (app.ship.Name :> "missing") @@ @]
              d == Delete(m.dir, app.ship.Name, removeOK)
          IN  app' = Removed(app,
                  IF ~yes \/ TrimSpace(text) # "DESTROY" THEN app
                  ELSE IF e.err = errUserCancelled THEN e.a
                  ELSE IF e.err # "" THEN [e.a EXCEPT !.pc = "cockpit"]
                  ELSE IF ~too THEN m
                  ELSE IF d.err # "" THEN [m EXCEPT !.pc = "cockpit"]
                  ELSE [Abandoned([m EXCEPT !.dir = d.dir], app.ship.Name)
                            EXCEPT !.pc = "cockpit"])
    /\ UNCHANGED <<svc, trust, conns, host, run, sock, tun, ships, cache, drv, up>>

\* hangar menu, "back"
HangarBack ==
    /\ app.pc = "hangar"
    /\ app' = [app EXCEPT !.pc = "cockpit"]
    /\ UNCHANGED <<svc, trust, conns, host, run, sock, tun, ships, cache, drv, up>>

InitCockpit ==
    /\ app \in {[IdleApp EXCEPT !.pc = "main", !.dir = d] : d \in {EmptyKV, CockpitStore}}
    /\ svc = IdleSvc
    /\ trust = <<>>
    /\ up = IdleUp
    /\ drv = IdleDrv
    /\ cache = IdleCache
    /\ conns = <<>>
    /\ host = IdleHost
    /\ run = IdleRun
    /\ sock = IdleSock
    /\ tun = IdleTun
    /\ ships = IdleShips

NextCockpit ==
    \/ AppOnboard
    \/ AppSelect
    \/ AppCreate
    \/ AppAbandon
    \/ AppExit
    \/ CockpitLaunch
    \/ CockpitHangar
    \/ CockpitEdit
    \/ CockpitForget
    \/ CockpitAbandon
    \/ CockpitBack
    \/ HangarShow
    \/ HangarConfigure
    \/ HangarDestroy
    \/ HangarBack

SpecCockpit == InitCockpit /\ [][NextCockpit]_vars

\* the names with a cached password
Cached == DOMAIN app.secrets

\* C40: after any sequence of menu actions the password cache holds no entry
\* under the name of a ship whose profile the session has deleted and that has
\* no profile in the store
C40_NoPasswordOfDeletedShip ==
    \A n \in Cached : n \in app.deleted => n \in Profiles(app.dir)

\* every step that removes a profile from the store leaves the cache without
\* an entry under its name, and a rename leaves the old name's password under
\* the new name
C40_AbandonForgetsAndRenameMoves ==
    [][/\ (Profiles(app.dir) \ Profiles(app'.dir)) \cap DOMAIN app'.secrets = {}
       /\ (/\ app.pc = "cockpit" /\ app'.pc = "cockpit"
           /\ app'.ship.Name # app.ship.Name
           /\ app.ship.Name \in DOMAIN app.secrets)
          => (/\ app'.ship.Name \in DOMAIN app'.secrets
              /\ app'.secrets[app'.ship.Name] = app.secrets[app.ship.Name])]_vars

====
